---- MODULE Spec2Model ----
(***************************************************************************)
(* A model of the anime query engine of website/src/lib (store.ts):        *)
(* the predicate library, the MiniSearch lookup, the filter pipeline of    *)
(* AnimeFilterContext.filter, the one-shot filterAnime, the searchAnime    *)
(* and filterAnime tools, and the arrays the queries allocate.             *)
(*                                                                         *)
(* Strings are sequences of one-character strings.  A numeric field of a   *)
(* record, and every optional part of a directive, is <<>> when it is      *)
(* null / undefined and <<v>> when it holds v.                             *)
(***************************************************************************)
EXTENDS Integers, Sequences, FiniteSets, TLC

VARIABLES source, plan, params, exclusionParams, chain, threw, oneShot, toolOut, pc,
          heap, running, finished, options, file, loaded, errorLog, statistics,
          pendingMessage, pendingConsumed, storeCalls, input, route

vars == <<source, plan, params, exclusionParams, chain, threw, oneShot, toolOut, pc,
          heap, running, finished, options, file, loaded, errorLog, statistics,
          pendingMessage, pendingConsumed, storeCalls, input, route>>

\* the state of the loader, of the option lists and of the statistics
pendingVars == <<pendingMessage, pendingConsumed, storeCalls, input, route>>

loaderVars == <<options, file, loaded, errorLog, statistics, pendingVars>>

(***************************************************************************)
(* Bounds of the model.                                                    *)
(***************************************************************************)
MaxLen == 3
MaxPage == 2

(***************************************************************************)
(* JavaScript values.                                                      *)
(***************************************************************************)
None == <<>>
Some(v) == <<v>>
Has(o) == o # <<>>
Get(o) == o[1]

\* the value of a string field that the record does not carry (undefined)
Undefined == <<"undefined">>

\* the value of a string field that holds the number 5: loadAnimeData copies
\* the string fields of the file as they are, so a JSON number stays one
NotAString == <<"number 5">>

UpperChars == <<"A","B","C","D","E","F","G","H","I","J","K","L","M",
                "N","O","P","Q","R","S","T","U","V","W","X","Y","Z">>
LowerChars == <<"a","b","c","d","e","f","g","h","i","j","k","l","m",
                "n","o","p","q","r","s","t","u","v","w","x","y","z">>
Digits == <<"0","1","2","3","4","5","6","7","8","9">>

IsUpper(c) == \E i \in 1..Len(UpperChars) : UpperChars[i] = c
IsDigit(c) == \E i \in 1..Len(Digits) : Digits[i] = c
IsLetter(c) == IsUpper(c) \/ \E i \in 1..Len(LowerChars) : LowerChars[i] = c
DigitValue(c) == (CHOOSE i \in 1..Len(Digits) : Digits[i] = c) - 1

LowerChar(c) ==
    IF IsUpper(c)
    THEN LowerChars[CHOOSE i \in 1..Len(UpperChars) : UpperChars[i] = c]
    ELSE c

\* String.prototype.toLowerCase
toLowerCase(s) == [i \in 1..Len(s) |-> LowerChar(s[i])]

\* String.prototype.includes
includes(s, q) ==
    \E i \in 0..(Len(s) - Len(q)) : SubSeq(s, i + 1, i + Len(q)) = q

startsWith(s, q) == Len(q) <= Len(s) /\ SubSeq(s, 1, Len(q)) = q

RECURSIVE trimStart(_)
trimStart(s) == IF s # <<>> /\ Head(s) = " " THEN trimStart(Tail(s)) ELSE s

RECURSIVE trimEnd(_)
trimEnd(s) ==
    IF s # <<>> /\ s[Len(s)] = " " THEN trimEnd(SubSeq(s, 1, Len(s) - 1)) ELSE s

\* String.prototype.trim
trim(s) == trimEnd(trimStart(s))

\* String.prototype.split(','): "" gives [""], "a," gives ["a", ""]
RECURSIVE split(_)
split(s) ==
    IF \E i \in 1..Len(s) : s[i] = ","
    THEN LET i == CHOOSE k \in 1..Len(s) :
                      s[k] = "," /\ \A j \in 1..(k - 1) : s[j] # ","
         IN  <<SubSeq(s, 1, i - 1)>> \o split(SubSeq(s, i + 1, Len(s)))
    ELSE <<s>>

\* anime[field]?.toString() || ''
FieldText(v) == IF v = Undefined THEN <<>> ELSE IF v = NotAString THEN <<"5">> ELSE v

\* String(v) of a string field
StringOf(v) ==
    IF v = Undefined THEN <<"u","n","d","e","f","i","n","e","d">>
    ELSE IF v = NotAString THEN <<"5">> ELSE v

Range(s) == {s[i] : i \in 1..Len(s)}

Min2(a, b) == IF a <= b THEN a ELSE b
Max2(a, b) == IF a >= b THEN a ELSE b

\* Array.prototype.slice(start, end); end = None is slice(start)
slice(s, start, end) ==
    LET n == Len(s)
        from == IF start < 0 THEN Max2(n + start, 0) ELSE Min2(start, n)
        e == IF Has(end) THEN Get(end) ELSE n
        to == IF e < 0 THEN Max2(n + e, 0) ELSE Min2(e, n)
    IN  SubSeq(s, from + 1, to)

(***************************************************************************)
(* Records.  NumericFields hold <<>> (null) or <<n>>.                      *)
(***************************************************************************)
NumericFields == {"Score", "Popularity", "Rank", "Members", "Episodes"}

BaseAnime ==
    [Title |-> <<"a">>, English |-> <<>>, Japanese |-> <<>>,
     Description |-> <<>>, Synonyms |-> <<>>,
     Score |-> None, Popularity |-> None, Rank |-> None, Members |-> None,
     Episodes |-> None,
     Type |-> <<>>, Status |-> <<>>, Genres |-> <<>>, Demographic |-> <<>>,
     Studios |-> <<>>, Producers |-> <<>>, Source |-> <<>>, Rating |-> <<>>,
     Premiered |-> <<>>, Aired |-> <<>>]

(***************************************************************************)
(* Predicate library.  A stage maps [threw, data] to [threw, data]; threw  *)
(* records a TypeError raised inside the stage.                            *)
(***************************************************************************)
Ok(data) == [threw |-> FALSE, data |-> data]
Thrown == [threw |-> TRUE, data |-> <<>>]

\* the test with the operands of the comparison exchanged: the query is
\* searched for the value
TextMatchesSwapped(value, filter) ==
    LET query == Get(filter.query)
    IN  IF filter.exact
        THEN IF filter.caseSensitive
             THEN query = value
             ELSE toLowerCase(query) = toLowerCase(value)
        ELSE IF filter.caseSensitive
             THEN includes(query, value)
             ELSE includes(toLowerCase(query), toLowerCase(value))

\* the test of applyTextFilter for one record; filter.query is a string
TextMatches(value, filter) ==
    LET query == Get(filter.query)
    IN  IF filter.exact
        THEN IF filter.caseSensitive
             THEN value = query
             ELSE toLowerCase(value) = toLowerCase(query)
        ELSE IF filter.caseSensitive
             THEN includes(value, query)
             ELSE includes(toLowerCase(value), toLowerCase(query))

\* applyTextFilter: filter.query.toLowerCase() raises a TypeError when the
\* query is undefined; value === undefined and value.includes(undefined) are
\* false
applyTextFilter(data, field, filter) ==
    IF data = <<>> THEN Ok(<<>>)
    ELSE IF ~Has(filter.query)
         THEN IF filter.caseSensitive THEN Ok(<<>>) ELSE Thrown
         ELSE Ok(SelectSeq(data,
                  LAMBDA anime : TextMatches(FieldText(anime[field]), filter)))

\* the tests with the upper bound of between left out of the interval
NumericTestHalfOpen(value, filter) ==
    IF "min" \in filter.keys \/ "max" \in filter.keys
    THEN /\ ~(Has(filter.min) /\ value < Get(filter.min))
         /\ ~(Has(filter.max) /\ value > Get(filter.max))
    ELSE CASE filter.operator = "eq" ->
                 Has(filter.value) /\ value = Get(filter.value)
           [] filter.operator = "gt" ->
                 Has(filter.value) /\ value > Get(filter.value)
           [] filter.operator = "gte" ->
                 Has(filter.value) /\ value >= Get(filter.value)
           [] filter.operator = "lt" ->
                 Has(filter.value) /\ value < Get(filter.value)
           [] filter.operator = "lte" ->
                 Has(filter.value) /\ value <= Get(filter.value)
           [] filter.operator = "between" ->
                 IF Has(filter.secondValue)
                 THEN /\ Has(filter.value)
                      /\ value >= Get(filter.value)
                      /\ value < Get(filter.secondValue)
                 ELSE FALSE
           [] OTHER -> TRUE

\* the tests of applyNumericFilter on a number; comparisons with undefined
\* are false
NumericTest(value, filter) ==
    IF "min" \in filter.keys \/ "max" \in filter.keys
    THEN /\ ~(Has(filter.min) /\ value < Get(filter.min))
         /\ ~(Has(filter.max) /\ value > Get(filter.max))
    ELSE CASE filter.operator = "eq" ->
                 Has(filter.value) /\ value = Get(filter.value)
           [] filter.operator = "gt" ->
                 Has(filter.value) /\ value > Get(filter.value)
           [] filter.operator = "gte" ->
                 Has(filter.value) /\ value >= Get(filter.value)
           [] filter.operator = "lt" ->
                 Has(filter.value) /\ value < Get(filter.value)
           [] filter.operator = "lte" ->
                 Has(filter.value) /\ value <= Get(filter.value)
           [] filter.operator = "between" ->
                 IF Has(filter.secondValue)
                 THEN /\ Has(filter.value)
                      /\ value >= Get(filter.value)
                      /\ value <= Get(filter.secondValue)
                 ELSE FALSE
           [] OTHER -> TRUE

\* the callback without its null test: null compares as the number 0
NumericMatchesNullAsZero(v, filter) ==
    NumericTest(IF v = None THEN 0 ELSE Get(v), filter)

\* the callback of applyNumericFilter
NumericMatches(v, filter) ==
    IF v = None THEN FALSE ELSE NumericTest(Get(v), filter)

applyNumericFilter(data, field, filter) ==
    Ok(SelectSeq(data, LAMBDA anime : NumericMatches(anime[field], filter)))

\* values and matchAny of a categorical directive
DirectiveValues(filter) == filter.values
DirectiveMatchAny(filter) ==
    IF filter.isArray THEN TRUE
    ELSE IF Has(filter.matchAny) THEN Get(filter.matchAny) ELSE TRUE

CategoricalMatches(text, values, matchAny) ==
    IF matchAny
    THEN \E i \in 1..Len(values) :
             includes(toLowerCase(text), toLowerCase(values[i]))
    ELSE \A i \in 1..Len(values) :
             includes(toLowerCase(text), toLowerCase(values[i]))

\* applyCategoricalFilter: values.some of an undefined values raises
applyCategoricalFilter(data, field, filter) ==
    IF data = <<>> THEN Ok(<<>>)
    ELSE IF ~Has(DirectiveValues(filter)) THEN Thrown
    ELSE Ok(SelectSeq(data, LAMBDA anime :
                CategoricalMatches(FieldText(anime[field]),
                                   Get(DirectiveValues(filter)),
                                   DirectiveMatchAny(filter))))

\* fieldValue.split(',').map(item => item.trim().toLowerCase())
FieldItems(text) ==
    LET parts == split(text)
    IN  [i \in 1..Len(parts) |-> toLowerCase(trim(parts[i]))]

\* the test on the whole text of the field instead of its items
MultiValueMatchesWholeText(text, values, matchAny) ==
    CategoricalMatches(text, values, matchAny)

MultiValueMatches(text, values, matchAny) ==
    LET fieldItems == FieldItems(text)
        hit(value) == \E k \in 1..Len(fieldItems) :
                          includes(fieldItems[k], toLowerCase(value))
    IN  IF matchAny
        THEN \E i \in 1..Len(values) : hit(values[i])
        ELSE \A i \in 1..Len(values) : hit(values[i])

applyMultiValueFilter(data, field, filter) ==
    IF data = <<>> THEN Ok(<<>>)
    ELSE IF ~Has(DirectiveValues(filter)) THEN Thrown
    ELSE Ok(SelectSeq(data, LAMBDA anime :
                MultiValueMatches(FieldText(anime[field]),
                                  Get(DirectiveValues(filter)),
                                  DirectiveMatchAny(filter))))

\* the position of the last run of four digits
YearMatchLast(s) ==
    LET at == {i \in 1..(Len(s) - 3) : \A k \in 0..3 : IsDigit(s[i + k])}
    IN  IF at = {} THEN None
        ELSE Some(CHOOSE i \in at : \A j \in at : i >= j)

\* airedValue.match(/\d{4}/): the position of the first run of four digits
YearMatch(s) ==
    LET at == {i \in 1..(Len(s) - 3) : \A k \in 0..3 : IsDigit(s[i + k])}
    IN  IF at = {} THEN None
        ELSE Some(CHOOSE i \in at : \A j \in at : i <= j)

RECURSIVE DigitsValue(_, _)
DigitsValue(s, acc) ==
    IF s = <<>> \/ ~IsDigit(Head(s)) THEN acc
    ELSE DigitsValue(Tail(s), 10 * acc + DigitValue(Head(s)))

\* parseInt: leading blanks, an optional sign, the leading digits; None is NaN
parseInt(str) ==
    LET s == trimStart(str)
        neg == s # <<>> /\ Head(s) = "-"
        body == IF s # <<>> /\ Head(s) \in {"-", "+"} THEN Tail(s) ELSE s
    IN  IF body = <<>> \/ ~IsDigit(Head(body)) THEN None
        ELSE Some(IF neg THEN 0 - DigitsValue(body, 0) ELSE DigitsValue(body, 0))

DateMatches(aired, filter) ==
    LET airedValue == FieldText(aired)
        m == YearMatch(airedValue)
    IN  IF airedValue = <<>> \/ m = None THEN FALSE
        ELSE LET year == DigitsValue(SubSeq(airedValue, Get(m), Get(m) + 3), 0)
                 startYear == IF Has(filter.start) /\ Get(filter.start) # <<>>
                              THEN parseInt(Get(filter.start)) ELSE None
                 endYear == IF Has(filter.end) /\ Get(filter.end) # <<>>
                            THEN parseInt(Get(filter.end)) ELSE None
             IN  /\ ~(Has(startYear) /\ year < Get(startYear))
                 /\ ~(Has(endYear) /\ year > Get(endYear))

applyDateFilter(data, filter) ==
    Ok(SelectSeq(data, LAMBDA anime : DateMatches(anime.Aired, filter)))

(***************************************************************************)
(* Sorting.                                                                *)
(***************************************************************************)
\* primary weights of the characters the model uses, in collation order:
\* blank, punctuation, digits, letters
Collation == <<" ", ",", "-", ".">> \o Digits \o LowerChars

CharRank(c) == CHOOSE i \in 1..Len(Collation) : Collation[i] = LowerChar(c)

RECURSIVE PrimaryCompare(_, _)
PrimaryCompare(x, y) ==
    IF x = <<>> /\ y = <<>> THEN 0
    ELSE IF x = <<>> THEN -1
    ELSE IF y = <<>> THEN 1
    ELSE IF CharRank(Head(x)) < CharRank(Head(y)) THEN -1
    ELSE IF CharRank(Head(x)) > CharRank(Head(y)) THEN 1
    ELSE PrimaryCompare(Tail(x), Tail(y))

\* the case level: at the first difference, lower case sorts first
RECURSIVE CaseCompare(_, _)
CaseCompare(x, y) ==
    IF x = <<>> \/ y = <<>> THEN 0
    ELSE IF Head(x) = Head(y) THEN CaseCompare(Tail(x), Tail(y))
    ELSE IF IsUpper(Head(y)) THEN -1 ELSE 1

\* String.prototype.localeCompare
localeCompare(x, y) ==
    LET p == PrimaryCompare(x, y)
    IN  IF p # 0 THEN p ELSE CaseCompare(x, y)

\* the comparison with the unknown value last in both directions
DirectiveCompareNullsLast(a, b, sort) ==
    IF sort.field \notin DOMAIN a THEN 0
    ELSE LET aVal == a[sort.field]
             bVal == b[sort.field]
         IN  IF aVal = None /\ bVal = None THEN 0
             ELSE IF aVal = None THEN 1
             ELSE IF bVal = None THEN -1
             ELSE IF sort.direction = "asc" THEN Get(aVal) - Get(bVal)
             ELSE Get(bVal) - Get(aVal)

\* the comparison with the null tests the wrong way round
DirectiveCompareNullsSwapped(a, b, sort) ==
    IF sort.field \notin DOMAIN a THEN 0
    ELSE LET aVal == a[sort.field]
             bVal == b[sort.field]
         IN  IF aVal = None /\ bVal = None THEN 0
             ELSE IF aVal = None THEN (IF sort.direction = "asc" THEN -1 ELSE 1)
             ELSE IF bVal = None THEN (IF sort.direction = "asc" THEN 1 ELSE -1)
             ELSE IF sort.direction = "asc" THEN Get(aVal) - Get(bVal)
             ELSE Get(bVal) - Get(aVal)

\* the comparison of two records under one sort directive; 0 is 'continue'
DirectiveCompare(a, b, sort) ==
    IF sort.field \notin DOMAIN a THEN 0
    ELSE IF sort.field \in NumericFields
    THEN LET aVal == a[sort.field]
             bVal == b[sort.field]
         IN  IF aVal = None /\ bVal = None THEN 0
             ELSE IF aVal = None THEN (IF sort.direction = "asc" THEN 1 ELSE -1)
             ELSE IF bVal = None THEN (IF sort.direction = "asc" THEN -1 ELSE 1)
             ELSE LET comparison == Get(aVal) - Get(bVal)
                  IN  IF sort.direction = "asc" THEN comparison
                      ELSE 0 - comparison
    ELSE LET comparison == localeCompare(StringOf(a[sort.field]),
                                         StringOf(b[sort.field]))
         IN  IF sort.direction = "asc" THEN comparison ELSE 0 - comparison

\* a comparator that looks at the first directive only
SortCompareFirstOnly(a, b, sortOptions) ==
    IF sortOptions = <<>> THEN 0
    ELSE DirectiveCompare(a, b, Head(sortOptions))

\* the comparator of applySorting: the first directive that does not tie
RECURSIVE SortCompare(_, _, _)
SortCompare(a, b, sortOptions) ==
    IF sortOptions = <<>> THEN 0
    ELSE LET c == DirectiveCompare(a, b, Head(sortOptions))
         IN  IF c # 0 THEN c ELSE SortCompare(a, b, Tail(sortOptions))

\* a sort step that is not stable: x goes before the elements it ties with
InsertSortedUnstable(acc, x, sortOptions) ==
    LET before == {i \in 1..Len(acc) : SortCompare(acc[i], x, sortOptions) >= 0}
        p == IF before = {} THEN Len(acc) + 1
             ELSE CHOOSE i \in before : \A j \in before : i <= j
    IN  SubSeq(acc, 1, p - 1) \o <<x>> \o SubSeq(acc, p, Len(acc))

\* one step of a stable sort: x goes behind every element it does not precede
InsertSorted(acc, x, sortOptions) ==
    LET before == {i \in 1..Len(acc) : SortCompare(acc[i], x, sortOptions) > 0}
        p == IF before = {} THEN Len(acc) + 1
             ELSE CHOOSE i \in before : \A j \in before : i <= j
    IN  SubSeq(acc, 1, p - 1) \o <<x>> \o SubSeq(acc, p, Len(acc))

RECURSIVE StableSort(_, _, _)
StableSort(acc, rest, sortOptions) ==
    IF rest = <<>> THEN acc
    ELSE StableSort(InsertSorted(acc, Head(rest), sortOptions), Tail(rest),
                    sortOptions)

\* applySorting: [...data].sort(comparator), Array.prototype.sort is stable
applySorting(data, sortOptions) == StableSort(<<>>, data, sortOptions)

(***************************************************************************)
(* The MiniSearch index of the context and its lookup.                     *)
(***************************************************************************)
IsSeparator(c) == ~(IsLetter(c) \/ IsDigit(c))

\* the default tokenizer and processTerm: split on blanks and punctuation,
\* lower-case, drop empty terms
RECURSIVE Tokens(_, _)
Tokens(s, cur) ==
    IF s = <<>> THEN (IF cur = <<>> THEN {} ELSE {cur})
    ELSE IF IsSeparator(Head(s))
         THEN (IF cur = <<>> THEN {} ELSE {cur}) \cup Tokens(Tail(s), <<>>)
         ELSE Tokens(Tail(s), Append(cur, LowerChar(Head(s))))

SearchFields == {"Title", "English", "Japanese", "Description", "Synonyms"}

DocumentTerms(anime) ==
    UNION {IF anime[f] = Undefined THEN {} ELSE Tokens(FieldText(anime[f]), <<>>)
           : f \in SearchFields}

\* whether a and b are within edit distance d
RECURSIVE WithinDistance(_, _, _)
WithinDistance(a, b, d) ==
    IF d < 0 THEN FALSE
    ELSE IF a = <<>> THEN Len(b) <= d
    ELSE IF b = <<>> THEN Len(a) <= d
    ELSE IF Head(a) = Head(b) THEN WithinDistance(Tail(a), Tail(b), d)
    ELSE \/ WithinDistance(Tail(a), Tail(b), d - 1)
         \/ WithinDistance(Tail(a), b, d - 1)
         \/ WithinDistance(a, Tail(b), d - 1)

\* Math.min(6, Math.round(term.length * 0.2))
MaxDistance(term) == Min2(6, (2 * Len(term) + 5) \div 10)

TermMatches(term, indexed, exact) ==
    \/ indexed = term
    \/ ~exact /\ startsWith(indexed, term)
    \/ ~exact /\ WithinDistance(term, indexed, MaxDistance(term))

\* miniSearch.search(query, {fuzzy: !exact ? 0.2 : false, prefix: !exact}):
\* the positions of the documents that hold a term matching a query term
searchIds(data, query, exact) ==
    {i \in 1..Len(data) :
        \E term \in Tokens(query, <<>>) :
            \E indexed \in DocumentTerms(data[i]) :
                TermMatches(term, indexed, exact)}

\* the matches from position i on, the last one first
KeepPositionsDescending(data, ids, i) ==
    LET hits == SelectSeq([k \in 1..Len(data) |-> k],
                          LAMBDA k : k >= i /\ k \in ids)
    IN  [k \in 1..Len(hits) |-> data[hits[Len(hits) + 1 - k]]]

RECURSIVE KeepPositions(_, _, _)
KeepPositions(data, ids, i) ==
    IF i > Len(data) THEN <<>>
    ELSE (IF i \in ids THEN <<data[i]>> ELSE <<>>)
         \o KeepPositions(data, ids, i + 1)

\* the search stage of filter; search(undefined) raises a TypeError
applySearch(data, search) ==
    IF ~Has(search.query) THEN Thrown
    ELSE Ok(KeepPositions(data, searchIds(data, Get(search.query), search.exact),
                          1))

(***************************************************************************)
(* AnimeFilterContext.filter                                               *)
(***************************************************************************)
NoFilters ==
    [search |-> None, title |-> None, english |-> None, japanese |-> None,
     description |-> None, score |-> None, popularity |-> None, rank |-> None,
     members |-> None, episodes |-> None, type |-> None, status |-> None,
     genres |-> None, demographic |-> None, studios |-> None,
     producers |-> None, source |-> None, rating |-> None, premiered |-> None,
     aired |-> None, sort |-> None, limit |-> None, offset |-> None]

\* the pagination stage
paginate(data, filters) ==
    IF Has(filters.offset) \/ Has(filters.limit)
    THEN LET offset == IF Has(filters.offset) /\ Get(filters.offset) # 0
                       THEN Get(filters.offset) ELSE 0
             limit == filters.limit
         IN  slice(data, offset,
                   IF Has(limit) /\ Get(limit) # 0
                   THEN Some(offset + Get(limit)) ELSE None)
    ELSE data

\* the filtering stages of filter in the order the code applies them: the
\* key of the directive, the predicate and the field it tests
StageList ==
    <<[key |-> "search", kind |-> "search", field |-> ""],
      [key |-> "title", kind |-> "text", field |-> "Title"],
      [key |-> "english", kind |-> "text", field |-> "English"],
      [key |-> "japanese", kind |-> "text", field |-> "Japanese"],
      [key |-> "description", kind |-> "text", field |-> "Description"],
      [key |-> "score", kind |-> "numeric", field |-> "Score"],
      [key |-> "popularity", kind |-> "numeric", field |-> "Popularity"],
      [key |-> "rank", kind |-> "numeric", field |-> "Rank"],
      [key |-> "members", kind |-> "numeric", field |-> "Members"],
      [key |-> "episodes", kind |-> "numeric", field |-> "Episodes"],
      [key |-> "type", kind |-> "categorical", field |-> "Type"],
      [key |-> "status", kind |-> "categorical", field |-> "Status"],
      [key |-> "genres", kind |-> "multi", field |-> "Genres"],
      [key |-> "demographic", kind |-> "categorical", field |-> "Demographic"],
      [key |-> "studios", kind |-> "multi", field |-> "Studios"],
      [key |-> "producers", kind |-> "multi", field |-> "Producers"],
      [key |-> "source", kind |-> "categorical", field |-> "Source"],
      [key |-> "rating", kind |-> "categorical", field |-> "Rating"],
      [key |-> "premiered", kind |-> "categorical", field |-> "Premiered"],
      [key |-> "aired", kind |-> "date", field |-> "Aired"]>>

\* one 'if (filters.key) filteredData = this.apply...(filteredData, ...)'
applyStage(data, stage, directive) ==
    CASE stage.kind = "search" -> applySearch(data, directive)
      [] stage.kind = "text" -> applyTextFilter(data, stage.field, directive)
      [] stage.kind = "numeric" -> applyNumericFilter(data, stage.field, directive)
      [] stage.kind = "categorical" ->
             applyCategoricalFilter(data, stage.field, directive)
      [] stage.kind = "multi" -> applyMultiValueFilter(data, stage.field, directive)
      [] stage.kind = "date" -> applyDateFilter(data, directive)

RECURSIVE runStages(_, _, _)
runStages(st, filters, k) ==
    IF st.threw \/ k > Len(StageList) THEN st
    ELSE IF Has(filters[StageList[k].key])
         THEN runStages(applyStage(st.data, StageList[k],
                                   Get(filters[StageList[k].key])),
                        filters, k + 1)
         ELSE runStages(st, filters, k + 1)

\* a pipeline that stops after the first directive it finds
filterStagesFirstOnly(data, filters) ==
    LET present == {k \in 1..Len(StageList) : Has(filters[StageList[k].key])}
    IN  IF present = {} THEN Ok(data)
        ELSE LET k == CHOOSE i \in present : \A j \in present : i <= j
             IN  applyStage(data, StageList[k], Get(filters[StageList[k].key]))

\* the stages of filter up to and including the date filter
filterStages(data, filters) == runStages(Ok(data), filters, 1)

\* a pipeline that cuts the page out before it sorts
filterPageBeforeSort(data, filters) ==
    CHOOSE out \in
        {IF st.threw THEN st
         ELSE Ok(IF Has(filters.sort) /\ Get(filters.sort) # <<>>
                 THEN applySorting(paginate(st.data, filters), Get(filters.sort))
                 ELSE paginate(st.data, filters))
         : st \in {filterStages(data, filters)}} : TRUE

\* filter: the stages, then the sort, then the pagination
filter(data, filters) ==
    CHOOSE out \in
        {IF st.threw THEN st
         ELSE Ok(paginate(IF Has(filters.sort) /\ Get(filters.sort) # <<>>
                          THEN applySorting(st.data, Get(filters.sort))
                          ELSE st.data,
                          filters))
         : st \in {filterStages(data, filters)}} : TRUE

\* filterAnime: None is the null result
filterAnime(data, filters) ==
    IF data = <<>> THEN [threw |-> FALSE, value |-> None]
    ELSE CHOOSE out \in
             {IF r.threw THEN [threw |-> TRUE, value |-> None]
              ELSE [threw |-> FALSE,
                    value |-> IF Len(r.data) > 0 THEN Some(r.data) ELSE None]
              : r \in {filter(data, filters)}} : TRUE

(***************************************************************************)
(* Aggregate helpers.                                                      *)
(***************************************************************************)
\* the order of the UTF-16 code units of the characters the model uses
CodeUnits == <<" ", ",", "-", ".">> \o Digits \o UpperChars \o LowerChars

CodeUnit(c) == CHOOSE i \in 1..Len(CodeUnits) : CodeUnits[i] = c

\* x < y in the order of Array.prototype.sort without a comparator
RECURSIVE CodeUnitLess(_, _)
CodeUnitLess(x, y) ==
    IF y = <<>> THEN FALSE
    ELSE IF x = <<>> THEN TRUE
    ELSE IF Head(x) = Head(y) THEN CodeUnitLess(Tail(x), Tail(y))
    ELSE CodeUnit(Head(x)) < CodeUnit(Head(y))

\* Array.from(values).sort()
RECURSIVE SortedStrings(_)
SortedStrings(values) ==
    IF values = {} THEN <<>>
    ELSE LET least == CHOOSE x \in values :
                          \A y \in values \ {x} : CodeUnitLess(x, y)
         IN  <<least>> \o SortedStrings(values \ {least})

\* Number.prototype.toString of an integer
RECURSIVE DigitString(_)
DigitString(n) ==
    IF n < 10 THEN <<Digits[n + 1]>>
    ELSE Append(DigitString(n \div 10), Digits[(n % 10) + 1])

NumberToString(n) == IF n < 0 THEN <<"-">> \o DigitString(0 - n) ELSE DigitString(n)

MultiValuedFields == {"Genres", "Studios", "Producers"}

\* the segments of a delimited field added as they are, blanks included
UniqueValuesOfUntrimmed(anime, field) ==
    IF field \in NumericFields \/ FieldText(anime[field]) = <<>> THEN {}
    ELSE Range(split(anime[field])) \ {<<>>}

\* the strings one record adds to the set of getUniqueValues; '', null, 0
\* and undefined are falsy and add nothing
UniqueValuesOf(anime, field) ==
    IF field \in NumericFields
    THEN IF anime[field] = None \/ Get(anime[field]) = 0 THEN {}
         ELSE {NumberToString(Get(anime[field]))}
    ELSE IF FieldText(anime[field]) = <<>> THEN {}
    ELSE IF field \in MultiValuedFields
    THEN {trim(item) : item \in Range(split(anime[field]))} \ {<<>>}
    ELSE {anime[field]}

getUniqueValues(data, field) ==
    SortedStrings(UNION {UniqueValuesOf(data[i], field) : i \in 1..Len(data)})

RECURSIVE Sum(_)
Sum(values) == IF values = <<>> THEN 0 ELSE Head(values) + Sum(Tail(values))

\* getFieldStatistics; None is null, avg is the quotient num / den
getFieldStatistics(data, field) ==
    LET validValues ==
            IF field \in NumericFields
            THEN LET defined == SelectSeq(data, LAMBDA anime : anime[field] # None)
                 IN  [i \in 1..Len(defined) |-> Get(defined[i][field])]
            ELSE <<>>
    IN  IF Len(validValues) = 0 THEN None
        ELSE Some([min |-> CHOOSE v \in Range(validValues) :
                               \A w \in Range(validValues) : v <= w,
                   max |-> CHOOSE v \in Range(validValues) :
                               \A w \in Range(validValues) : v >= w,
                   avg |-> [num |-> Sum(validValues), den |-> Len(validValues)],
                   count |-> Len(validValues)])

(***************************************************************************)
(* The searchAnime and filterAnime tools.                                  *)
(***************************************************************************)
\* a RangeFilter object literal {min, max}: both keys are present
RangeFilter(min, max) ==
    [keys |-> {"min", "max"}, min |-> min, max |-> max, operator |-> "",
     value |-> None, secondValue |-> None]

\* a NumericFilter object {operator, value, secondValue?}
NumericFilter(operator, value, secondValue) ==
    [keys |-> {"operator", "value"}, min |-> None, max |-> None,
     operator |-> operator, value |-> value, secondValue |-> secondValue]

\* a string[] directive and a {values, matchAny} directive
ArrayFilter(values) == [isArray |-> TRUE, values |-> Some(values), matchAny |-> None]
MultiSelectFilter(values, matchAny) ==
    [isArray |-> FALSE, values |-> values, matchAny |-> matchAny]

TextFilter(query, exact, caseSensitive) ==
    [query |-> query, exact |-> exact, caseSensitive |-> caseSensitive]

NoParams ==
    [searchQuery |-> None, minScore |-> None, maxScore |-> None,
     minEpisodes |-> None, maxEpisodes |-> None, minRank |-> None,
     maxRank |-> None, genres |-> None, types |-> None, statuses |-> None,
     studios |-> None, demographics |-> None, sources |-> None,
     ratings |-> None, startYear |-> None, endYear |-> None, sortBy |-> None,
     sortDirection |-> None, limit |-> None, offset |-> None]

ListParam(p) == IF Has(p) /\ Len(Get(p)) > 0 THEN Some(ArrayFilter(Get(p))) ELSE None
RangeParam(lo, hi) == IF Has(lo) \/ Has(hi) THEN Some(RangeFilter(lo, hi)) ELSE None
Truthy(str) == Has(str) /\ Get(str) # <<>>

\* the AnimeFilters object tools.filterAnime.execute builds from its params
BuildFilters(p) ==
    [NoFilters EXCEPT
        !.search = IF Truthy(p.searchQuery)
                   THEN Some(TextFilter(p.searchQuery, FALSE, FALSE)) ELSE None,
        !.score = RangeParam(p.minScore, p.maxScore),
        !.episodes = RangeParam(p.minEpisodes, p.maxEpisodes),
        !.rank = RangeParam(p.minRank, p.maxRank),
        !.genres = ListParam(p.genres),
        !.type = ListParam(p.types),
        !.status = ListParam(p.statuses),
        !.studios = ListParam(p.studios),
        !.demographic = ListParam(p.demographics),
        !.source = ListParam(p.sources),
        !.rating = ListParam(p.ratings),
        !.aired = IF Truthy(p.startYear) \/ Truthy(p.endYear)
                  THEN Some([start |-> p.startYear, end |-> p.endYear]) ELSE None,
        !.sort = IF Has(p.sortBy)
                 THEN Some(<<[field |-> Get(p.sortBy),
                              direction |-> IF Truthy(p.sortDirection)
                                            THEN Get(p.sortDirection)
                                            ELSE "desc"]>>)
                 ELSE None,
        !.limit = p.limit,
        !.offset = p.offset]

Titles(data) == [i \in 1..Len(data) |-> data[i].Title]

Payload(success, message, results, totalCount, error) ==
    [success |-> success, message |-> message, results |-> results,
     totalCount |-> totalCount, error |-> error]

\* a catch block that leaves the error detail out of the payload
FailureWithoutDetail(message) == Payload(FALSE, message, <<>>, None, FALSE)

\* the payload of the catch block of a tool
Failure(message) == Payload(FALSE, message, <<>>, None, TRUE)

\* results.map(...): anime.Description?.substring and anime.Aired?.match
\* raise a TypeError on a value that is no string
MapRaises(results) ==
    \E i \in 1..Len(results) :
        results[i].Description = NotAString \/ results[i].Aired = NotAString

\* tools.filterAnime.execute on the collection loadAnimeData returned
toolFilterAnime(animeData, p) ==
    CHOOSE out \in
        {IF results.threw
         THEN Failure("Failed to filter anime data")
         ELSE IF Has(results.value) /\ MapRaises(Get(results.value))
         THEN Failure("Failed to filter anime data")
         ELSE IF ~Has(results.value) \/ Len(Get(results.value)) = 0
         THEN Payload(FALSE, "No anime found matching the specified criteria",
                      <<>>, Some(0), FALSE)
         ELSE Payload(TRUE, "Found anime matching the criteria",
                      Titles(Get(results.value)),
                      Some(Len(Get(results.value))), FALSE)
         : results \in {filterAnime(animeData, BuildFilters(p))}} : TRUE

\* searchAnimeByText
searchAnimeByText(data, query) ==
    filterAnime(data, [NoFilters EXCEPT
                          !.search = Some(TextFilter(Some(query), FALSE, FALSE))])

\* tools.searchAnime.execute
toolSearchAnime(animeData, query, limit) ==
    CHOOSE out \in
        {IF results.threw
         THEN Failure("Failed to search anime data")
         ELSE IF ~Has(results.value) \/ Len(Get(results.value)) = 0
         THEN Payload(FALSE, "No anime found matching", <<>>, None, FALSE)
         ELSE IF MapRaises(IF Has(limit) /\ Get(limit) # 0
                           THEN slice(Get(results.value), 0, limit)
                           ELSE Get(results.value))
         THEN Failure("Failed to search anime data")
         ELSE Payload(TRUE, "Found anime matching",
                      Titles(IF Has(limit) /\ Get(limit) # 0
                             THEN slice(Get(results.value), 0, limit)
                             ELSE Get(results.value)),
                      Some(Len(Get(results.value))), FALSE)
         : results \in {searchAnimeByText(animeData, query)}} : TRUE

(***************************************************************************)
(* The filterAnimeWithExclusions tool.                                     *)
(***************************************************************************)
NoExclusionParams ==
    [includeGenres |-> None, includeTypes |-> None, includeStatuses |-> None,
     includeStudios |-> None, includeDemographics |-> None,
     includeSources |-> None, includeRatings |-> None,
     excludeGenres |-> None, excludeTypes |-> None, excludeStatuses |-> None,
     excludeStudios |-> None, excludeDemographics |-> None,
     excludeSources |-> None, excludeRatings |-> None,
     searchQuery |-> None, minScore |-> None, maxScore |-> None,
     minEpisodes |-> None, maxEpisodes |-> None, startYear |-> None,
     endYear |-> None, sortBy |-> None, sortDirection |-> None,
     limit |-> None, includeAllGenres |-> None]

\* a hasAnyValue that asks for every value
hasAnyValueEvery(fieldValue, values) ==
    /\ FieldText(fieldValue) # <<>>
    /\ Len(values) > 0
    /\ MultiValueMatches(FieldText(fieldValue), values, FALSE)

\* hasAnyValue and hasAllValues of the tool
hasAnyValue(fieldValue, values) ==
    /\ FieldText(fieldValue) # <<>>
    /\ Len(values) > 0
    /\ MultiValueMatches(FieldText(fieldValue), values, TRUE)

hasAllValues(fieldValue, values) ==
    /\ FieldText(fieldValue) # <<>>
    /\ Len(values) > 0
    /\ MultiValueMatches(FieldText(fieldValue), values, FALSE)

\* list.some(v => anime.Field?.toLowerCase().includes(v.toLowerCase()))
someIncluded(fieldValue, values) ==
    /\ fieldValue \notin {Undefined, NotAString}
    /\ \E i \in 1..Len(values) :
           includes(toLowerCase(fieldValue), toLowerCase(values[i]))

\* the steps of the tool that narrow filteredData, in the order of the code:
\* the parameter that switches the step on and the field it tests
ExclusionSteps ==
    <<[key |-> "searchQuery", kind |-> "search", field |-> ""],
      [key |-> "includeGenres", kind |-> "includeGenres", field |-> "Genres"],
      [key |-> "includeTypes", kind |-> "include", field |-> "Type"],
      [key |-> "includeStatuses", kind |-> "include", field |-> "Status"],
      [key |-> "includeStudios", kind |-> "includeMulti", field |-> "Studios"],
      [key |-> "includeDemographics", kind |-> "include", field |-> "Demographic"],
      [key |-> "includeSources", kind |-> "include", field |-> "Source"],
      [key |-> "includeRatings", kind |-> "include", field |-> "Rating"],
      [key |-> "excludeGenres", kind |-> "excludeMulti", field |-> "Genres"],
      [key |-> "excludeTypes", kind |-> "exclude", field |-> "Type"],
      [key |-> "excludeStatuses", kind |-> "exclude", field |-> "Status"],
      [key |-> "excludeStudios", kind |-> "excludeMulti", field |-> "Studios"],
      [key |-> "excludeDemographics", kind |-> "exclude", field |-> "Demographic"],
      [key |-> "excludeSources", kind |-> "exclude", field |-> "Source"],
      [key |-> "excludeRatings", kind |-> "exclude", field |-> "Rating"],
      [key |-> "minScore", kind |-> "min", field |-> "Score"],
      [key |-> "maxScore", kind |-> "max", field |-> "Score"],
      [key |-> "minEpisodes", kind |-> "min", field |-> "Episodes"],
      [key |-> "maxEpisodes", kind |-> "max", field |-> "Episodes"],
      [key |-> "startYear", kind |-> "date", field |-> "Aired"]>>

\* the condition of the 'if' around a step
StepActive(step, p) ==
    CASE step.kind = "search" -> Truthy(p.searchQuery)
      [] step.kind \in {"min", "max"} -> Has(p[step.key])
      [] step.kind = "date" -> Truthy(p.startYear) \/ Truthy(p.endYear)
      [] OTHER -> Has(p[step.key]) /\ Len(Get(p[step.key])) > 0

\* the callback of the step's filteredData.filter
StepKeeps(anime, step, p) ==
    CASE step.kind = "search" ->
             \E f \in SearchFields :
                 /\ anime[f] \notin {Undefined, NotAString}
                 /\ includes(toLowerCase(anime[f]),
                             toLowerCase(Get(p.searchQuery)))
      [] step.kind = "includeGenres" ->
             IF Has(p.includeAllGenres) /\ Get(p.includeAllGenres)
             THEN hasAllValues(anime.Genres, Get(p.includeGenres))
             ELSE hasAnyValue(anime.Genres, Get(p.includeGenres))
      [] step.kind = "include" -> someIncluded(anime[step.field], Get(p[step.key]))
      [] step.kind = "includeMulti" ->
             hasAnyValue(anime[step.field], Get(p[step.key]))
      [] step.kind = "exclude" -> ~someIncluded(anime[step.field], Get(p[step.key]))
      [] step.kind = "excludeMulti" ->
             ~hasAnyValue(anime[step.field], Get(p[step.key]))
      [] step.kind = "min" ->
             anime[step.field] # None /\ Get(anime[step.field]) >= Get(p[step.key])
      [] step.kind = "max" ->
             anime[step.field] # None /\ Get(anime[step.field]) <= Get(p[step.key])
      [] step.kind = "date" ->
             DateMatches(anime.Aired, [start |-> p.startYear, end |-> p.endYear])

SearchOrder == <<"Title", "English", "Japanese", "Description", "Synonyms">>

\* the callback of the step raises a TypeError on the record: a string
\* method is called on a field that is no string
StepRaises(anime, step, p) ==
    CASE step.kind = "search" ->
             \E k \in 1..Len(SearchOrder) :
                 /\ anime[SearchOrder[k]] = NotAString
                 /\ \A j \in 1..(k - 1) :
                        /\ anime[SearchOrder[j]] # NotAString
                        /\ ~(/\ anime[SearchOrder[j]] # Undefined
                             /\ includes(toLowerCase(anime[SearchOrder[j]]),
                                         toLowerCase(Get(p.searchQuery))))
      [] step.kind \in {"includeGenres", "includeMulti", "excludeMulti",
                        "include", "exclude"} ->
             anime[step.field] = NotAString
      [] step.kind = "date" -> anime.Aired = NotAString
      [] OTHER -> FALSE

\* some callback of the steps raises
RECURSIVE exclusionRaises(_, _, _)
exclusionRaises(data, p, k) ==
    IF k > Len(ExclusionSteps) THEN FALSE
    ELSE IF StepActive(ExclusionSteps[k], p)
         THEN \/ \E i \in 1..Len(data) : StepRaises(data[i], ExclusionSteps[k], p)
              \/ exclusionRaises(
                     SelectSeq(data, LAMBDA anime :
                                   StepKeeps(anime, ExclusionSteps[k], p)),
                     p, k + 1)
         ELSE exclusionRaises(data, p, k + 1)

RECURSIVE exclusionStages(_, _, _)
exclusionStages(data, p, k) ==
    IF k > Len(ExclusionSteps) THEN data
    ELSE IF StepActive(ExclusionSteps[k], p)
         THEN exclusionStages(
                  SelectSeq(data, LAMBDA anime : StepKeeps(anime, ExclusionSteps[k], p)),
                  p, k + 1)
         ELSE exclusionStages(data, p, k + 1)

\* the comparator of the tool's filteredData.sort
ExclusionCompare(a, b, sortBy, sortDirection) ==
    IF sortBy \in NumericFields
    THEN LET aVal == a[sortBy]
             bVal == b[sortBy]
         IN  IF aVal = None /\ bVal = None THEN 0
             ELSE IF aVal = None THEN (IF sortDirection = Some("asc") THEN 1 ELSE -1)
             ELSE IF bVal = None THEN (IF sortDirection = Some("asc") THEN -1 ELSE 1)
             ELSE LET comparison == Get(aVal) - Get(bVal)
                  IN  IF sortDirection = Some("asc") THEN comparison
                      ELSE 0 - comparison
    ELSE LET comparison == localeCompare(StringOf(a[sortBy]), StringOf(b[sortBy]))
         IN  IF sortDirection = Some("asc") THEN comparison ELSE 0 - comparison

ExclusionInsert(acc, x, sortBy, sortDirection) ==
    LET before == {i \in 1..Len(acc) :
                      ExclusionCompare(acc[i], x, sortBy, sortDirection) > 0}
        at == IF before = {} THEN Len(acc) + 1
              ELSE CHOOSE i \in before : \A j \in before : i <= j
    IN  SubSeq(acc, 1, at - 1) \o <<x>> \o SubSeq(acc, at, Len(acc))

RECURSIVE ExclusionSort(_, _, _, _)
ExclusionSort(acc, rest, sortBy, sortDirection) ==
    IF rest = <<>> THEN acc
    ELSE ExclusionSort(ExclusionInsert(acc, Head(rest), sortBy, sortDirection),
                       Tail(rest), sortBy, sortDirection)

\* one element of the results of the payload
ResultItem(anime) ==
    [title |-> anime.Title, englishTitle |-> anime.English,
     score |-> anime.Score, rank |-> anime.Rank,
     popularity |-> anime.Popularity, episodes |-> anime.Episodes,
     type |-> anime.Type, status |-> anime.Status, genres |-> anime.Genres,
     studios |-> anime.Studios, demographic |-> anime.Demographic,
     rating |-> anime.Rating, source |-> anime.Source,
     description |-> StringOf(anime.Description),
     year |-> IF Has(YearMatch(FieldText(anime.Aired)))
              THEN SubSeq(anime.Aired, Get(YearMatch(anime.Aired)),
                          Get(YearMatch(anime.Aired)) + 3)
              ELSE <<"U","n","k","n","o","w","n">>,
     aired |-> anime.Aired]

\* tools.filterAnimeWithExclusions.execute on the loaded collection
toolFilterAnimeWithExclusions(animeData, p) ==
    IF exclusionRaises(animeData, p, 1)
    THEN Failure("Failed to filter anime with inclusion/exclusion criteria")
    ELSE
    CHOOSE out \in
        {IF Len(limited) = 0
         THEN Payload(FALSE, "No anime found matching the specified inclusion/exclusion criteria",
                      <<>>, Some(0), FALSE)
         ELSE IF MapRaises(limited)
         THEN Failure("Failed to filter anime with inclusion/exclusion criteria")
         ELSE Payload(TRUE, "Found anime matching the inclusion/exclusion criteria",
                      [i \in 1..Len(limited) |-> ResultItem(limited[i])],
                      Some(Len(limited)), FALSE)
         : limited \in
             {IF Has(p.limit) /\ Get(p.limit) # 0
              THEN slice(sorted, 0, p.limit) ELSE sorted
              : sorted \in
                  {IF Has(p.sortBy)
                   THEN ExclusionSort(<<>>, kept, Get(p.sortBy), p.sortDirection)
                   ELSE kept
                   : kept \in {exclusionStages(animeData, p, 1)}}}} : TRUE

(***************************************************************************)
(* The getAnimeOptions, getAnimeStatistics, findExactAnime and             *)
(* getAnimeById tools.                                                     *)
(***************************************************************************)
\* tools.getAnimeOptions.execute
toolGetAnimeOptions(animeData, field) ==
    [success |-> TRUE, field |-> field,
     values |-> getUniqueValues(animeData, field),
     count |-> Len(getUniqueValues(animeData, field)),
     message |-> "Found unique values", error |-> FALSE]

\* Math.round(stats.avg * 100) / 100 as the quotient num / den
RoundedAverage(avg) ==
    [num |-> (200 * avg.num + avg.den) \div (2 * avg.den), den |-> 100]

\* tools.getAnimeStatistics.execute
toolGetAnimeStatistics(animeData, field) ==
    CHOOSE out \in
        {IF stats = None
         THEN [success |-> FALSE, field |-> field, statistics |-> None,
               message |-> "No valid data found for field", error |-> FALSE]
         ELSE [success |-> TRUE, field |-> field,
               statistics |-> Some([minimum |-> Get(stats).min,
                                    maximum |-> Get(stats).max,
                                    average |-> RoundedAverage(Get(stats).avg),
                                    count |-> Get(stats).count,
                                    totalRecords |-> Len(animeData)]),
               message |-> "Statistics calculated", error |-> FALSE]
         : stats \in {getFieldStatistics(animeData, field)}} : TRUE

\* the test a title lookup applies to one field
TitleHit(kind, value, needle) ==
    CASE kind = "exactTrimmed" -> trim(toLowerCase(value)) = needle
      [] kind = "exact" -> toLowerCase(value) = needle
      [] kind = "includes" -> includes(toLowerCase(value), needle)

\* a || chain of tests over the fields of one record: "raise" when a string
\* method is called on a value that has none, "match", or "none".  With
\* strict the first field is read without ?. and raises when it is undefined
RECURSIVE Probe(_, _, _, _, _, _)
Probe(anime, fields, kind, needle, strict, k) ==
    IF k > Len(fields) THEN "none"
    ELSE IF \/ anime[fields[k]] = NotAString
            \/ strict /\ k = 1 /\ anime[fields[k]] = Undefined
    THEN "raise"
    ELSE IF /\ anime[fields[k]] # Undefined
            /\ TitleHit(kind, anime[fields[k]], needle)
    THEN "match"
    ELSE Probe(anime, fields, kind, needle, strict, k + 1)

\* animeData.find(...): index 0 is undefined
RECURSIVE Find(_, _, _, _, _, _)
Find(data, fields, kind, needle, strict, i) ==
    IF i > Len(data) THEN [raised |-> FALSE, index |-> 0]
    ELSE IF Probe(data[i], fields, kind, needle, strict, 1) = "raise"
    THEN [raised |-> TRUE, index |-> 0]
    ELSE IF Probe(data[i], fields, kind, needle, strict, 1) = "match"
    THEN [raised |-> FALSE, index |-> i]
    ELSE Find(data, fields, kind, needle, strict, i + 1)

TitleFields == <<"Title", "English", "Japanese">>

LookupPayload(success, message, anime, error) ==
    [success |-> success, message |-> message, anime |-> anime,
     suggestions |-> <<>>, error |-> error]

\* tools.findExactAnime.execute
toolFindExactAnime(animeData, title, matchAnyLanguage) ==
    CHOOSE out \in
        {IF found.raised
         THEN LookupPayload(FALSE, "Failed to search for exact anime match", None, TRUE)
         ELSE IF found.index = 0
         THEN IF \E i \in 1..Len(animeData) :
                     Probe(animeData[i], TitleFields, "includes",
                           trim(toLowerCase(title)), FALSE, 1) = "raise"
              THEN LookupPayload(FALSE, "Failed to search for exact anime match",
                                 None, TRUE)
              ELSE [LookupPayload(FALSE, "No anime found with exact title", None, FALSE)
                       EXCEPT !.suggestions =
                           Titles(slice(SelectSeq(animeData, LAMBDA anime :
                                            Probe(anime, TitleFields, "includes",
                                                  trim(toLowerCase(title)), FALSE, 1)
                                                = "match"),
                                        0, Some(5)))]
         ELSE LookupPayload(TRUE, "Found exact match", Some(animeData[found.index]),
                            FALSE)
         : found \in {Find(animeData,
                           IF matchAnyLanguage THEN TitleFields ELSE <<"Title">>,
                           "exactTrimmed", trim(toLowerCase(title)), FALSE, 1)}} : TRUE

\* tools.getAnimeById.execute
toolGetAnimeById(animeData, title, detailed) ==
    CHOOSE out \in
        {IF exact.raised \/ (exact.index = 0 /\ partial.raised)
         THEN LookupPayload(FALSE, "Failed to retrieve anime data", None, TRUE)
         ELSE IF exact.index = 0 /\ partial.index = 0
         THEN LookupPayload(FALSE, "No anime found with title", None, FALSE)
         ELSE IF ~detailed /\ animeData[IF exact.index # 0 THEN exact.index
                                        ELSE partial.index].Aired = NotAString
         THEN LookupPayload(FALSE, "Failed to retrieve anime data", None, TRUE)
         ELSE LookupPayload(TRUE, "Found anime",
                            Some(animeData[IF exact.index # 0 THEN exact.index
                                           ELSE partial.index]), FALSE)
         : exact \in {Find(animeData, TitleFields, "exact", toLowerCase(title),
                           TRUE, 1)},
           partial \in {Find(animeData, TitleFields, "includes",
                             toLowerCase(title), TRUE, 1)}} : TRUE

(***************************************************************************)
(* The state machine of a query session: a context over source, the chain  *)
(* ctx.filter(plan[1]).filter(plan[2])..., the one-shot filterAnime(source,*)
(* plan[1]) and the two tools called with params.                          *)
(***************************************************************************)
NotRun == <<>>

\* the data of the context the next filter call of the chain is made on
Current == IF chain = <<>> THEN source ELSE chain[Len(chain)]

\* ctx.filter(plan[k]) for the next k of the chain
Filter ==
    /\ pc = "chain"
    /\ ~threw
    /\ Len(chain) < Len(plan)
    /\ \E r \in {filter(Current, plan[Len(chain) + 1])} :
           IF r.threw
           THEN threw' = TRUE /\ chain' = chain
           ELSE threw' = FALSE /\ chain' = Append(chain, r.data)
    /\ UNCHANGED loaderVars
    /\ UNCHANGED <<source, plan, params, exclusionParams, oneShot, toolOut, pc,
                   heap, running, finished>>

\* filterAnime(source, plan[1])
FilterAnime ==
    /\ pc = "chain"
    /\ threw \/ Len(chain) = Len(plan)
    /\ oneShot' = Some(filterAnime(source, plan[1]))
    /\ pc' = "done"
    /\ UNCHANGED loaderVars
    /\ UNCHANGED <<source, plan, params, exclusionParams, chain, threw, toolOut,
                   heap, running, finished>>

NextQuery == Filter \/ FilterAnime

\* tools.filterAnime.execute(params)
ToolFilterAnime ==
    /\ pc = "tools"
    /\ toolOut.filterAnime = NotRun
    /\ toolOut' = [toolOut EXCEPT
                      !.filterAnime = Some(toolFilterAnime(source, params))]
    /\ UNCHANGED loaderVars
    /\ UNCHANGED <<source, plan, params, exclusionParams, chain, threw, oneShot, pc,
                   heap, running, finished>>

\* tools.searchAnime.execute({query: params.searchQuery, limit: params.limit})
ToolSearchAnime ==
    /\ pc = "tools"
    /\ toolOut.searchAnime = NotRun
    /\ Has(params.searchQuery)
    /\ toolOut' = [toolOut EXCEPT
                      !.searchAnime = Some(toolSearchAnime(source,
                                               Get(params.searchQuery),
                                               params.limit))]
    /\ UNCHANGED loaderVars
    /\ UNCHANGED <<source, plan, params, exclusionParams, chain, threw, oneShot, pc,
                   heap, running, finished>>

\* filterAnime(source, BuildFilters(params)), the call inside the tool
ToolOneShot ==
    /\ pc = "tools"
    /\ oneShot = NotRun
    /\ oneShot' = Some(filterAnime(source, BuildFilters(params)))
    /\ UNCHANGED loaderVars
    /\ UNCHANGED <<source, plan, params, exclusionParams, chain, threw, toolOut, pc,
                   heap, running, finished>>

NextTools == ToolFilterAnime \/ ToolSearchAnime \/ ToolOneShot

\* tools.filterAnimeWithExclusions.execute(exclusionParams)
ToolFilterAnimeWithExclusions ==
    /\ toolOut.filterAnimeWithExclusions = NotRun
    /\ Has(exclusionParams)
    /\ toolOut' = [toolOut EXCEPT
                      !.filterAnimeWithExclusions =
                          Some(toolFilterAnimeWithExclusions(source,
                                   Get(exclusionParams)))]
    /\ UNCHANGED loaderVars
    /\ UNCHANGED <<source, plan, params, exclusionParams, chain, threw, oneShot, pc,
                   heap, running, finished>>

\* tools.getAnimeOptions.execute({field})
ToolGetAnimeOptions ==
    /\ toolOut.getAnimeOptions = NotRun
    /\ \E field \in {"Genres", "Studios", "Producers", "Type", "Status", "Source",
                      "Rating", "Demographic", "Premiered"} :
           toolOut' = [toolOut EXCEPT
                          !.getAnimeOptions = Some(toolGetAnimeOptions(source, field))]
    /\ UNCHANGED loaderVars
    /\ UNCHANGED <<source, plan, params, exclusionParams, chain, threw, oneShot, pc,
                   heap, running, finished>>

\* tools.getAnimeStatistics.execute({field})
ToolGetAnimeStatistics ==
    /\ toolOut.getAnimeStatistics = NotRun
    /\ \E field \in NumericFields :
           toolOut' = [toolOut EXCEPT
                          !.getAnimeStatistics =
                              Some(toolGetAnimeStatistics(source, field))]
    /\ UNCHANGED loaderVars
    /\ UNCHANGED <<source, plan, params, exclusionParams, chain, threw, oneShot, pc,
                   heap, running, finished>>

\* tools.findExactAnime.execute({title: params.searchQuery, matchAnyLanguage})
ToolFindExactAnime ==
    /\ toolOut.findExactAnime = NotRun
    /\ Has(params.searchQuery)
    /\ \E matchAnyLanguage \in BOOLEAN :
           toolOut' = [toolOut EXCEPT
                          !.findExactAnime =
                              Some(toolFindExactAnime(source, Get(params.searchQuery),
                                                      matchAnyLanguage))]
    /\ UNCHANGED loaderVars
    /\ UNCHANGED <<source, plan, params, exclusionParams, chain, threw, oneShot, pc,
                   heap, running, finished>>

\* tools.getAnimeById.execute({title: params.searchQuery, detailed})
ToolGetAnimeById ==
    /\ toolOut.getAnimeById = NotRun
    /\ Has(params.searchQuery)
    /\ \E detailed \in BOOLEAN :
           toolOut' = [toolOut EXCEPT
                          !.getAnimeById =
                              Some(toolGetAnimeById(source, Get(params.searchQuery),
                                                    detailed))]
    /\ UNCHANGED loaderVars
    /\ UNCHANGED <<source, plan, params, exclusionParams, chain, threw, oneShot, pc,
                   heap, running, finished>>

NoToolOut ==
    [filterAnime |-> NotRun, searchAnime |-> NotRun,
     filterAnimeWithExclusions |-> NotRun, getAnimeOptions |-> NotRun,
     getAnimeStatistics |-> NotRun, findExactAnime |-> NotRun,
     getAnimeById |-> NotRun]

\* the part of the state a session does not use
Idle ==
    /\ exclusionParams = None
    /\ heap = <<>>
    /\ running = <<>>
    /\ finished = <<>>
    /\ options = None
    /\ statistics = None
    /\ pendingMessage = Undefined
    /\ pendingConsumed = FALSE
    /\ storeCalls = <<>>
    /\ input = <<>>
    /\ route = "/"
    /\ file = None
    /\ loaded = None
    /\ errorLog = <<>>

InitQuery(src, pl) ==
    /\ source = src
    /\ plan = pl
    /\ params = NoParams
    /\ chain = <<>>
    /\ threw = FALSE
    /\ oneShot = NotRun
    /\ toolOut = NoToolOut
    /\ pc = "chain"
    /\ Idle

\* the sequences over S of length lo..hi
SeqsOf(S, lo, hi) == UNION {[1..n -> S] : n \in lo..hi}

(***************************************************************************)
(* Numeric directives.                                                     *)
(***************************************************************************)
NumericKey == [Score |-> "score", Popularity |-> "popularity", Rank |-> "rank",
               Members |-> "members", Episodes |-> "episodes"]

NumericValues == {None, Some(5), Some(8)}

\* records that differ in one numeric field
NumericRecords(field) ==
    {[BaseAnime EXCEPT ![field] = v] : v \in NumericValues}

Operators == {"eq", "gt", "gte", "lt", "lte", "between", "ne"}

NumericDirectives ==
    {[RangeFilter(lo, hi) EXCEPT !.keys = k] :
        lo \in {None, Some(6)}, hi \in {None, Some(6)},
        k \in {{"min"}, {"max"}, {"min", "max"}}}
    \cup {NumericFilter(o, Some(5), s) : o \in Operators, s \in {None, Some(8)}}
    \cup {[RangeFilter(None, None) EXCEPT !.keys = {}]}

InitNumeric ==
    \E field \in NumericFields :
        \E src \in SeqsOf(NumericRecords(field), 0, MaxLen) :
            \E d \in NumericDirectives :
                InitQuery(src, <<[NoFilters EXCEPT ![NumericKey[field]] = Some(d)]>>)

SpecNumeric == InitNumeric /\ [][NextQuery]_vars

\* every record of data has a number in each field filters has a numeric
\* directive for
UnknownExcluded(data, filters) ==
    \A field \in NumericFields :
        Has(filters[NumericKey[field]]) =>
            \A i \in 1..Len(data) : data[i][field] # None

\* C1: with a score, popularity, rank, members or episodes directive of any
\* form, no record whose value for that field is unknown (null) is in the
\* result of filter or of filterAnime
C1_UnknownExcluded ==
    /\ \A k \in 1..Len(chain) : UnknownExcluded(chain[k], plan[k])
    /\ (Has(oneShot) /\ Has(Get(oneShot).value)) =>
           UnknownExcluded(Get(Get(oneShot).value), plan[1])

\* a range directive without bounds on Score has run over a collection that
\* holds a record with unknown Score, and kept the others
C1_Witness ==
    /\ Has(plan[1].score)
    /\ Get(plan[1].score).keys = {"min", "max"}
    /\ Get(plan[1].score).min = None
    /\ Get(plan[1].score).max = None
    /\ \E i \in 1..Len(source) : source[i].Score = None
    /\ Len(chain) = 1
    /\ Len(chain[1]) = 2
    /\ Has(oneShot)
    /\ Has(Get(oneShot).value)

(***************************************************************************)
(* The whole pipeline: a search, a sort and a page, with the same          *)
(* specification applied twice in a chain.                                 *)
(***************************************************************************)
Anime(title, score) == [BaseAnime EXCEPT !.Title = title, !.Score = score]

PipelineRecords ==
    {Anime(<<"a","b">>, Some(7)), Anime(<<"a","b","c">>, None),
     Anime(<<"x","y">>, Some(7)), Anime(<<"x","y">>, Some(9))}

Searches ==
    {None,
     Some(TextFilter(Some(<<"a","b">>), FALSE, FALSE)),
     Some(TextFilter(Some(<<"a","b","c">>), TRUE, FALSE))}

ScoreSorts ==
    {None,
     Some(<<[field |-> "Score", direction |-> "asc"]>>),
     Some(<<[field |-> "Score", direction |-> "desc"]>>)}

Pages == {None} \cup {Some(n) : n \in 0..MaxPage}

PipelineFilters ==
    {[NoFilters EXCEPT !.search = q, !.sort = s, !.offset = o, !.limit = l] :
        q \in Searches, s \in ScoreSorts, o \in Pages, l \in Pages}

InitPipeline ==
    \E src \in SeqsOf(PipelineRecords, 1, MaxLen) :
        \E f \in PipelineFilters : InitQuery(src, <<f, f>>)

SpecPipeline == InitPipeline /\ [][NextQuery]_vars

\* the number of records of source that pass every filtering stage of filters
totalMatches(filters) == Len(filterStages(source, filters).data)

\* C2: with offset >= 0 and limit >= 0 both given, the result of filter has
\* min(limit, max(0, totalMatches - offset)) records
C2_PageLength ==
    (/\ Len(chain) >= 1
     /\ Has(plan[1].offset)
     /\ Has(plan[1].limit)) =>
        Len(chain[1]) = Min2(Get(plan[1].limit),
                             Max2(0, totalMatches(plan[1]) - Get(plan[1].offset)))

\* C3: filtering the result of filter again with the same specification
\* gives the same records in the same order
C3_Idempotent == Len(chain) = 2 => chain[2] = chain[1]

\* the offset filter uses: filters.offset || 0
OffsetOf(filters) == IF Has(filters.offset) THEN Get(filters.offset) ELSE 0

\* C3, amended: when the specification skips no record (offset absent or 0),
\* filtering the result again with it gives the same records in the same order
C3_IdempotentWithoutOffset ==
    (Len(chain) = 2 /\ OffsetOf(plan[1]) = 0) => chain[2] = chain[1]

\* a specification with a search, a sort and a limit has been applied twice
\* and has narrowed, reordered and cut the collection
C3_Witness ==
    /\ Len(chain) = 2
    /\ OffsetOf(plan[1]) = 0
    /\ Has(plan[1].search)
    /\ Has(plan[1].sort)
    /\ Has(plan[1].limit)
    /\ Len(chain[1]) = 2
    /\ Len(source) = 3
    /\ chain[1] # SubSeq(source, 1, 2)
    /\ chain[1][1].Score # chain[1][2].Score

(***************************************************************************)
(* The tools over a collection that may be empty (loadAnimeData returns [] *)
(* when the load fails).                                                   *)
(***************************************************************************)
ToolParams ==
    {[NoParams EXCEPT !.searchQuery = q, !.minScore = m, !.limit = l] :
        q \in {None, Some(<<"a","b">>), Some(<<"z","z","z","z">>)},
        m \in {None, Some(8), Some(10)},
        l \in {None, Some(1)}}

InitTools ==
    \E src \in SeqsOf(PipelineRecords, 0, MaxLen) :
        \E p \in ToolParams :
            /\ source = src
            /\ params = p
            /\ plan = <<BuildFilters(p)>>
            /\ chain = <<>>
            /\ threw = FALSE
            /\ oneShot = NotRun
            /\ toolOut = NoToolOut
            /\ pc = "tools"
            /\ Idle

SpecTools == InitTools /\ [][NextTools]_vars

\* a well-formed query over a non-empty collection that matches no record
ZeroMatch(data, filters) ==
    /\ data # <<>>
    /\ ~filter(data, filters).threw
    /\ filter(data, filters).data = <<>>

\* C4: the outcome of a query that matches no record of a non-empty
\* collection differs from the outcome of the same query over the empty
\* collection, and the tools report it as a success with a zero count
C4_NoDataDistinct ==
    (pc = "tools" /\ ZeroMatch(source, BuildFilters(params))) =>
        /\ Has(oneShot) =>
               Get(oneShot) # filterAnime(<<>>, BuildFilters(params))
        /\ Has(toolOut.filterAnime) =>
               /\ Get(toolOut.filterAnime) # toolFilterAnime(<<>>, params)
               /\ Get(toolOut.filterAnime).success
               /\ Get(toolOut.filterAnime).totalCount = Some(0)
        /\ (Has(toolOut.searchAnime) /\ BuildFilters(params).score = None) =>
               /\ Get(toolOut.searchAnime) #
                      toolSearchAnime(<<>>, Get(params.searchQuery), params.limit)
               /\ Get(toolOut.searchAnime).success

(***************************************************************************)
(* Sorting by numeric fields that may be unknown, with one or two sort     *)
(* directives, in filter and in the filterAnimeWithExclusions tool.        *)
(***************************************************************************)
SortRecords ==
    {[BaseAnime EXCEPT !.Score = v, !.Episodes = e] :
        v \in {None, Some(7), Some(9)}, e \in {None, Some(1)}}

SortDirectives ==
    {[field |-> f, direction |-> d] :
        f \in {"Score", "Episodes"}, d \in {"asc", "desc"}}

SortOptions ==
    {<<d>> : d \in SortDirectives}
    \cup {<<p[1], p[2]>> :
             p \in {q \in SortDirectives \X SortDirectives :
                        q[1].field # q[2].field}}

InitSort ==
    \E src \in SeqsOf(SortRecords, 1, MaxLen) :
        \E opts \in SortOptions :
            \E given \in BOOLEAN :
                /\ source = src
                /\ plan = <<[NoFilters EXCEPT !.sort = Some(opts)]>>
                /\ params = NoParams
                /\ chain = <<>>
                /\ threw = FALSE
                /\ oneShot = NotRun
                /\ toolOut = NoToolOut
                /\ pc = "chain"
                /\ exclusionParams =
                       Some([NoExclusionParams EXCEPT
                                !.sortBy = Some(opts[1].field),
                                !.sortDirection =
                                    IF given THEN Some(opts[1].direction) ELSE None])
                /\ heap = <<>>
                /\ running = <<>>
                /\ finished = <<>>
                /\ options = None
                /\ statistics = None
                /\ pendingMessage = Undefined
                /\ pendingConsumed = FALSE
                /\ storeCalls = <<>>
                /\ input = <<>>
                /\ route = "/"
                /\ file = None
                /\ loaded = None
                /\ errorLog = <<>>

NextSort == Filter \/ FilterAnime \/ ToolFilterAnimeWithExclusions

SpecSort == InitSort /\ [][NextSort]_vars

\* the values of a field along a result
Column(data, field) == [i \in 1..Len(data) |-> data[i][field]]

\* the defined values of col are in the order of direction, unknown values
\* are behind them (last = TRUE) or in front of them (last = FALSE)
ScoreOrder(col, direction, last) ==
    \A i, j \in 1..Len(col) :
        i < j =>
            /\ (col[i] # None /\ col[j] # None) =>
                   IF direction = "asc" THEN Get(col[i]) <= Get(col[j])
                   ELSE Get(col[i]) >= Get(col[j])
            /\ IF last THEN col[i] = None => col[j] = None
               ELSE col[j] = None => col[i] = None

SortedByScoreOnly ==
    /\ Len(chain) = 1
    /\ Len(Get(plan[1].sort)) = 1
    /\ Get(plan[1].sort)[1].field = "Score"

\* C6: sorting by Score gives the defined scores in the order of the
\* direction, followed by the records with unknown Score, in both directions
C6_UnknownLastBothWays ==
    SortedByScoreOnly =>
        ScoreOrder(Column(chain[1], "Score"), Get(plan[1].sort)[1].direction, TRUE)

\* C6, amended: ascending gives increasing scores followed by the unknown
\* ones (7, 9, unknown); descending gives the unknown ones followed by
\* decreasing scores (unknown, 9, 7)
C6_ScoreOrder ==
    SortedByScoreOnly =>
        ScoreOrder(Column(chain[1], "Score"), Get(plan[1].sort)[1].direction,
                   Get(plan[1].sort)[1].direction = "asc")

\* the collection of the example, scores 7, unknown, 9, sorted descending
C6_Witness ==
    /\ SortedByScoreOnly
    /\ Get(plan[1].sort)[1].direction = "desc"
    /\ Column(source, "Score") = <<Some(7), None, Some(9)>>
    /\ Column(chain[1], "Score") = <<None, Some(9), Some(7)>>

\* a and b, in this order in a result, tie under the directives before the
\* k-th and exactly one of them has an unknown value for the k-th field
UnknownDecides(a, b, sortOptions, k) ==
    /\ \A n \in 1..(k - 1) : a[sortOptions[n].field] = b[sortOptions[n].field]
    /\ (a[sortOptions[k].field] = None) # (b[sortOptions[k].field] = None)

UnknownPlaced(data, sortOptions) ==
    \A i, j \in 1..Len(data) : \A k \in 1..Len(sortOptions) :
        (i < j /\ UnknownDecides(data[i], data[j], sortOptions, k)) =>
            IF sortOptions[k].direction = "asc"
            THEN data[j][sortOptions[k].field] = None
            ELSE data[i][sortOptions[k].field] = None

ItemKey == [Score |-> "score", Episodes |-> "episodes"]

\* C7: under each sort directive a record with an unknown value for the
\* field comes after every record with a defined value when the direction
\* is ascending and before every one when it is descending (among the
\* records that tie under the earlier directives), in filter and in the
\* sort of filterAnimeWithExclusions
C7_UnknownByDirection ==
    /\ Len(chain) = 1 => UnknownPlaced(chain[1], Get(plan[1].sort))
    /\ (/\ Has(toolOut.filterAnimeWithExclusions)
        /\ Has(Get(exclusionParams).sortDirection)) =>
           UnknownPlaced(Get(toolOut.filterAnimeWithExclusions).results,
                         <<[field |-> ItemKey[Get(Get(exclusionParams).sortBy)],
                            direction |-> Get(Get(exclusionParams).sortDirection)]>>)

\* two directives have sorted a collection in which the second one had to
\* place an unknown value among records tied under the first, and the tool
\* has sorted the same collection
C7_Witness ==
    /\ Len(chain) = 1
    /\ Len(Get(plan[1].sort)) = 2
    /\ Get(plan[1].sort)[2].direction = "desc"
    /\ Len(chain[1]) = 3
    /\ chain[1] # source
    /\ \E i \in 1..2 :
           UnknownDecides(chain[1][i], chain[1][i + 1], Get(plan[1].sort), 2)
    /\ Has(toolOut.filterAnimeWithExclusions)
    /\ Has(Get(exclusionParams).sortDirection)
    /\ \E i \in 1..2 :
           LET r == Get(toolOut.filterAnimeWithExclusions).results
               f == ItemKey[Get(Get(exclusionParams).sortBy)]
           IN  (r[i][f] = None) # (r[i + 1][f] = None)

(***************************************************************************)
(* Categorical directives on the single-valued and the delimited fields.   *)
(***************************************************************************)
CategoricalKey ==
    [type |-> "Type", status |-> "Status", genres |-> "Genres",
     demographic |-> "Demographic", studios |-> "Studios",
     producers |-> "Producers", source |-> "Source", rating |-> "Rating",
     premiered |-> "Premiered"]

CategoricalValues ==
    {<<"T","V">>, <<"O","V","A">>, <<"A","c",","," ","C","o">>, <<"D","r">>}

CategoricalRecords(field) ==
    {[BaseAnime EXCEPT ![field] = v] : v \in CategoricalValues}

CategoricalDirectives ==
    {ArrayFilter(<<>>), ArrayFilter(<<<<"t","v">>>>),
     ArrayFilter(<<<<"a","c">>, <<"d","r">>>>)}
    \cup {MultiSelectFilter(Some(v), m) :
             v \in {<<>>, <<<<"a","c">>, <<"C","o">>>>},
             m \in {None, Some(TRUE), Some(FALSE)}}

InitCategorical ==
    \E key \in DOMAIN CategoricalKey :
        \E src \in SeqsOf(CategoricalRecords(CategoricalKey[key]), 1, MaxLen) :
            \E d \in CategoricalDirectives :
                InitQuery(src, <<[NoFilters EXCEPT ![key] = Some(d)]>>)

SpecCategorical == InitCategorical /\ [][NextQuery]_vars

\* filters without its categorical directives that have an empty values array
WithoutEmptyCategorical(filters) ==
    [key \in DOMAIN filters |->
        IF /\ key \in DOMAIN CategoricalKey
           /\ Has(filters[key])
           /\ Get(filters[key]).values = Some(<<>>)
        THEN None ELSE filters[key]]

\* C8: a categorical directive with an empty values array, a plain [] or
\* {values: []} with any matchAny, changes nothing: the result is the result
\* of the query without the directive
C8_EmptyValuesNoOp ==
    Len(chain) = 1 =>
        chain[1] = filter(source, WithoutEmptyCategorical(plan[1])).data

(***************************************************************************)
(* Composite filters with one malformed directive.                         *)
(***************************************************************************)
KnownOperators == {"eq", "gt", "gte", "lt", "lte", "between"}

TextKeys == {"search", "title", "english", "japanese", "description"}

ScoreAtLeast8 == Some(RangeFilter(Some(8), None))

MalformedFilters ==
    {[NoFilters EXCEPT ![key] = Some(TextFilter(None, e, c)), !.score = d] :
        key \in TextKeys, e \in BOOLEAN, c \in BOOLEAN,
        d \in {None, ScoreAtLeast8}}
    \cup {[NoFilters EXCEPT
              !.episodes = Some(NumericFilter("ne", Some(1), None)),
              !.score = d] : d \in {None, ScoreAtLeast8}}
    \cup {[NoFilters EXCEPT
              !.sort = Some(<<[field |-> "Nope", direction |-> dir]>>),
              !.score = d] : dir \in {"asc", "desc"}, d \in {None, ScoreAtLeast8}}
    \cup {[NoFilters EXCEPT
              ![key] = Some(MultiSelectFilter(None, Some(TRUE))),
              !.score = d] : key \in {"type", "genres"}, d \in {None, ScoreAtLeast8}}

InitMalformed ==
    \E src \in SeqsOf(PipelineRecords, 1, MaxLen) :
        \E f \in MalformedFilters : InitQuery(src, <<f>>)

SpecMalformed == InitMalformed /\ [][NextQuery]_vars

\* whether the directive under key is malformed
IsMalformed(filters, key) ==
    /\ Has(filters[key])
    /\ CASE key \in TextKeys -> ~Has(Get(filters[key]).query)
         [] key \in {"score", "popularity", "rank", "members", "episodes"} ->
                /\ Get(filters[key]).keys \cap {"min", "max"} = {}
                /\ Get(filters[key]).operator \notin KnownOperators
         [] key \in DOMAIN CategoricalKey -> ~Has(Get(filters[key]).values)
         [] key = "sort" ->
                \E i \in 1..Len(Get(filters[key])) :
                    Get(filters[key])[i].field \notin DOMAIN BaseAnime
         [] OTHER -> FALSE

\* filters without its malformed directives
WellFormedPart(filters) ==
    [key \in DOMAIN filters |->
        IF IsMalformed(filters, key) THEN None ELSE filters[key]]

\* C9: a malformed directive does not make filter or filterAnime throw and
\* is skipped: the result is the one the remaining directives determine
C9_MalformedSkipped ==
    /\ ~threw
    /\ Len(chain) = 1 => chain[1] = filter(source, WellFormedPart(plan[1])).data
    /\ Has(oneShot) =>
           Get(oneShot) = filterAnime(source, WellFormedPart(plan[1]))

(***************************************************************************)
(* Text directives on title, english, japanese and description.            *)
(***************************************************************************)
TextKey == [title |-> "Title", english |-> "English", japanese |-> "Japanese",
            description |-> "Description"]

TextValues == {Undefined, <<>>, <<"A","b">>, <<"b">>}

TextRecords(field) == {[BaseAnime EXCEPT ![field] = v] : v \in TextValues}

TextDirectives ==
    {TextFilter(Some(q), e, c) :
        q \in {<<>>, <<"a","b">>, <<"b">>, <<"B">>},
        e \in BOOLEAN, c \in BOOLEAN}

InitText ==
    \E key \in DOMAIN TextKey :
        \E src \in SeqsOf(TextRecords(TextKey[key]), 1, MaxLen) :
            \E d \in TextDirectives :
                InitQuery(src, <<[NoFilters EXCEPT ![key] = Some(d)]>>)

SpecText == InitText /\ [][NextQuery]_vars

\* no record of data has an absent or empty value in a field filters has a
\* text directive for whose query satisfies Q
EmptyExcluded(data, filters, Q(_)) ==
    \A key \in DOMAIN TextKey :
        (Has(filters[key]) /\ Q(Get(Get(filters[key]).query))) =>
            \A i \in 1..Len(data) : FieldText(data[i][TextKey[key]]) # <<>>

\* C10: a record whose field value is absent or empty never passes a text
\* directive on that field, for every query string, the empty one included,
\* in exact and in substring mode
C10_EmptyNeverPasses ==
    Len(chain) = 1 => EmptyExcluded(chain[1], plan[1], LAMBDA q : TRUE)

\* C10, amended: a record whose field value is absent or empty never passes
\* a text directive on that field whose query string is not empty, in exact
\* and in substring mode
C10_EmptyNeverPassesNonEmptyQuery ==
    /\ Len(chain) = 1 => EmptyExcluded(chain[1], plan[1], LAMBDA q : q # <<>>)
    /\ (Has(oneShot) /\ Has(Get(oneShot).value)) =>
           EmptyExcluded(Get(Get(oneShot).value), plan[1], LAMBDA q : q # <<>>)

\* a substring directive on English has run over a collection with a record
\* without English, one with an empty English and one that matches
C10_Witness ==
    /\ Len(chain) = 1
    /\ Has(plan[1].english)
    /\ ~Get(plan[1].english).exact
    /\ Get(plan[1].english).query = Some(<<"b">>)
    /\ \E i \in 1..Len(source) : source[i].English = Undefined
    /\ \E i \in 1..Len(source) : source[i].English = <<>>
    /\ Len(chain[1]) = 1
    /\ chain[1][1].English = <<"A","b">>

(***************************************************************************)
(* Queries that overlap on one snapshot.  heap[id] is the content of the   *)
(* array id; heap[SourceId] is the loaded collection.  A query allocates   *)
(* its arrays step by step, and the steps of the queries interleave.       *)
(***************************************************************************)
SourceId == 1

Queries == {"q1", "q2"}

\* [...array]: a new array with the same elements
spreadAlias(h, id) == [heap |-> h, id |-> id]

spread(h, id) == [heap |-> Append(h, h[id]), id |-> Len(h) + 1]

\* an array method that returns a new array with the given content
alloc(h, content) == [heap |-> Append(h, content), id |-> Len(h) + 1]

\* the steps of filter: 0 is the copy of this.data, 1..Len(StageList) are
\* the filtering stages, then the sort, the pagination and the return
SortStep == Len(StageList) + 1
PageStep == Len(StageList) + 2
ReturnStep == Len(StageList) + 3

StepPresent(filters, k) ==
    IF k = 0 \/ k = ReturnStep THEN TRUE
    ELSE IF k = SortStep THEN Has(filters.sort) /\ Get(filters.sort) # <<>>
    ELSE IF k = PageStep THEN Has(filters.offset) \/ Has(filters.limit)
    ELSE Has(filters[StageList[k].key])

\* the first step from k on that the specification asks for
NextStep(filters, k) ==
    CHOOSE j \in k..ReturnStep :
        StepPresent(filters, j) /\ \A i \in k..(j - 1) : ~StepPresent(filters, i)

ConcurrentRecords ==
    {Anime(<<"a","b">>, Some(7)), Anime(<<"a","b","c">>, None),
     Anime(<<"x","y">>, Some(9))}

ConcurrentCalls ==
    {[op |-> "filter", filters |-> f, field |-> ""] :
        f \in {NoFilters,
               [NoFilters EXCEPT !.search = Some(TextFilter(Some(<<"a","b">>), FALSE, FALSE))],
               [NoFilters EXCEPT !.sort = Some(<<[field |-> "Score", direction |-> "asc"]>>)],
               [NoFilters EXCEPT !.score = Some(RangeFilter(Some(5), None)),
                                 !.sort = Some(<<[field |-> "Score", direction |-> "desc"]>>),
                                 !.limit = Some(1)]}}
    \cup {[op |-> "filterAnime", filters |-> f, field |-> ""] :
             f \in {[NoFilters EXCEPT !.score = Some(RangeFilter(Some(8), None))]}}
    \cup {[op |-> "getUniqueValues", filters |-> NoFilters, field |-> "Title"],
          [op |-> "getFieldStatistics", filters |-> NoFilters, field |-> "Score"]}

\* the outcome of a call on the context whose array is data: the id of the
\* returned array, or the returned value; was is the content of data when
\* the call started
ResultOf(call, data, was) ==
    [call |-> call, data |-> data, was |-> was, array |-> None, value |-> None,
     threw |-> FALSE]

\* the arrays a call can be made on: the loaded collection and, in a chain,
\* the data of the contexts that filter has returned
Contexts ==
    {SourceId} \cup
    (IF pc = "chained"
     THEN {Get(Get(finished[q]).array) :
              q \in {p \in Queries : /\ Has(finished[p])
                                     /\ Get(finished[p]).call.op = "filter"
                                     /\ Has(Get(finished[p]).array)}}
     ELSE {})

\* a call starts; filterAnime returns null at once on an empty collection
Start(q) ==
    /\ pc \in {"concurrent", "chained"}
    /\ running[q] = None
    /\ finished[q] = None
    /\ \E call \in ConcurrentCalls, data \in Contexts :
           IF call.op = "filterAnime" /\ Len(heap[data]) = 0
           THEN /\ finished' = [finished EXCEPT
                                   ![q] = Some(ResultOf(call, data, heap[data]))]
                /\ running' = running
           ELSE /\ running' = [running EXCEPT
                                  ![q] = Some([call |-> call, step |-> 0,
                                               data |-> data, was |-> heap[data],
                                               filteredData |-> data])]
                /\ finished' = finished
    /\ UNCHANGED loaderVars
    /\ UNCHANGED <<source, plan, params, exclusionParams, chain, threw, oneShot,
                   toolOut, pc, heap>>

IsFilter(q) ==
    /\ pc \in {"concurrent", "chained"}
    /\ Has(running[q])
    /\ Get(running[q]).call.op \in {"filter", "filterAnime"}

Advance(q, r, k) ==
    /\ heap' = r.heap
    /\ running' = [running EXCEPT
                      ![q] = Some([Get(running[q]) EXCEPT
                                      !.filteredData = r.id,
                                      !.step = NextStep(Get(running[q]).call.filters,
                                                        k + 1)])]

\* let filteredData = [...this.data]
CopyData(q) ==
    /\ IsFilter(q)
    /\ Get(running[q]).step = 0
    /\ Advance(q, spread(heap, Get(running[q]).data), 0)
    /\ UNCHANGED loaderVars
    /\ UNCHANGED <<source, plan, params, exclusionParams, chain, threw, oneShot,
                   toolOut, pc, finished>>

\* one filtering stage; the search stage looks the positions up in the
\* index built over this.data
RunStage(q) ==
    /\ IsFilter(q)
    /\ Get(running[q]).step \in 1..Len(StageList)
    /\ LET me == Get(running[q])
           stage == StageList[me.step]
           directive == Get(me.call.filters[stage.key])
       IN  \E st \in {IF stage.kind = "search"
                      THEN (IF ~Has(directive.query) THEN Thrown
                            ELSE Ok(KeepPositions(heap[me.filteredData],
                                        searchIds(heap[me.data],
                                                  Get(directive.query),
                                                  directive.exact), 1)))
                      ELSE applyStage(heap[me.filteredData], stage, directive)} :
               IF st.threw
               THEN /\ running' = [running EXCEPT ![q] = None]
                    /\ finished' = [finished EXCEPT
                                       ![q] = Some([ResultOf(me.call, me.data, me.was) EXCEPT
                                                       !.threw = TRUE])]
                    /\ heap' = heap
               ELSE /\ Advance(q, alloc(heap, st.data), me.step)
                    /\ finished' = finished
    /\ UNCHANGED loaderVars
    /\ UNCHANGED <<source, plan, params, exclusionParams, chain, threw, oneShot,
                   toolOut, pc>>

\* applySorting: [...data].sort(comparator) sorts the copy in place
SortData(q) ==
    /\ IsFilter(q)
    /\ Get(running[q]).step = SortStep
    /\ LET me == Get(running[q])
       IN  \E r \in {spread(heap, me.filteredData)} :
               Advance(q, [heap |-> [r.heap EXCEPT
                                        ![r.id] = applySorting(r.heap[r.id],
                                                      Get(me.call.filters.sort))],
                           id |-> r.id],
                       SortStep)
    /\ UNCHANGED loaderVars
    /\ UNCHANGED <<source, plan, params, exclusionParams, chain, threw, oneShot,
                   toolOut, pc, finished>>

\* filteredData.slice(offset, ...)
PageData(q) ==
    /\ IsFilter(q)
    /\ Get(running[q]).step = PageStep
    /\ Advance(q, alloc(heap, paginate(heap[Get(running[q]).filteredData],
                                       Get(running[q]).call.filters)),
               PageStep)
    /\ UNCHANGED loaderVars
    /\ UNCHANGED <<source, plan, params, exclusionParams, chain, threw, oneShot,
                   toolOut, pc, finished>>

\* return new AnimeFilterContext(filteredData), getData(); filterAnime
\* returns null for an empty result
Return(q) ==
    /\ IsFilter(q)
    /\ Get(running[q]).step = ReturnStep
    /\ LET me == Get(running[q])
       IN  finished' =
               [finished EXCEPT
                   ![q] = Some([ResultOf(me.call, me.data, me.was) EXCEPT
                                   !.array =
                                       IF /\ me.call.op = "filterAnime"
                                          /\ Len(heap[me.filteredData]) = 0
                                       THEN None ELSE Some(me.filteredData)])]
    /\ running' = [running EXCEPT ![q] = None]
    /\ UNCHANGED loaderVars
    /\ UNCHANGED <<source, plan, params, exclusionParams, chain, threw, oneShot,
                   toolOut, pc, heap>>

\* getUniqueValues and getFieldStatistics read the collection in one step
Aggregate(q) ==
    /\ pc \in {"concurrent", "chained"}
    /\ Has(running[q])
    /\ Get(running[q]).call.op \in {"getUniqueValues", "getFieldStatistics"}
    /\ LET call == Get(running[q]).call
       IN  finished' =
               [finished EXCEPT
                   ![q] = Some([ResultOf(call, Get(running[q]).data, Get(running[q]).was) EXCEPT
                                   !.value =
                                       IF call.op = "getUniqueValues"
                                       THEN Some(getUniqueValues(
                                                    heap[Get(running[q]).data],
                                                    call.field))
                                       ELSE getFieldStatistics(
                                                heap[Get(running[q]).data],
                                                call.field)])]
    /\ running' = [running EXCEPT ![q] = None]
    /\ UNCHANGED loaderVars
    /\ UNCHANGED <<source, plan, params, exclusionParams, chain, threw, oneShot,
                   toolOut, pc, heap>>

NextConcurrent ==
    \E q \in Queries :
        \/ Start(q)
        \/ CopyData(q)
        \/ RunStage(q)
        \/ SortData(q)
        \/ PageData(q)
        \/ Return(q)
        \/ Aggregate(q)

InitConcurrent ==
    \E src \in SeqsOf(ConcurrentRecords, 0, MaxLen) :
        /\ source = src
        /\ heap = <<src>>
        /\ running = [q \in Queries |-> None]
        /\ finished = [q \in Queries |-> None]
        /\ options = None
        /\ statistics = None
        /\ pendingMessage = Undefined
        /\ pendingConsumed = FALSE
        /\ storeCalls = <<>>
        /\ input = <<>>
        /\ route = "/"
        /\ file = None
        /\ loaded = None
        /\ errorLog = <<>>
        /\ plan = <<NoFilters>>
        /\ params = NoParams
        /\ exclusionParams = None
        /\ chain = <<>>
        /\ threw = FALSE
        /\ oneShot = NotRun
        /\ toolOut = NoToolOut
        /\ pc = "concurrent"

SpecConcurrent == InitConcurrent /\ [][NextConcurrent]_vars

\* the outcome of the call when it runs alone on the collection
Alone(call, data) ==
    IF call.op = "filter"
    THEN CHOOSE out \in
             {[threw |-> r.threw,
               content |-> IF r.threw THEN None ELSE Some(r.data),
               value |-> None] : r \in {filter(data, call.filters)}} : TRUE
    ELSE IF call.op = "filterAnime"
    THEN CHOOSE out \in
             {[threw |-> r.threw, content |-> r.value, value |-> None]
              : r \in {filterAnime(data, call.filters)}} : TRUE
    ELSE IF call.op = "getUniqueValues"
    THEN [threw |-> FALSE, content |-> None,
          value |-> Some(getUniqueValues(data, call.field))]
    ELSE [threw |-> FALSE, content |-> None,
          value |-> getFieldStatistics(data, call.field)]

\* what the finished call q returned, the returned array read by content
Returned(q) ==
    LET r == Get(finished[q])
    IN  [threw |-> r.threw,
         content |-> IF Has(r.array) THEN Some(heap[Get(r.array)]) ELSE None,
         value |-> r.value]

\* the arrays another query holds or has returned
ArraysOf(q) ==
    (IF Has(running[q]) THEN {Get(running[q]).filteredData} ELSE {})
    \cup (IF Has(finished[q]) /\ Has(Get(finished[q]).array)
          THEN {Get(Get(finished[q]).array)} ELSE {})

\* C5: in every interleaving of the queries on one collection the source
\* array keeps its content and order, the array a filter call returns is
\* a new one (not the source array, not an array of another query), and
\* the outcome of every finished query is the outcome it has when it runs
\* alone on the collection.
C5_Isolation ==
    /\ heap[SourceId] = source
    /\ \A q \in Queries :
           Has(finished[q]) =>
               /\ Has(Get(finished[q]).array) =>
                      /\ Get(Get(finished[q]).array) # SourceId
                      /\ \A p \in Queries \ {q} :
                             Get(Get(finished[q]).array) \notin ArraysOf(p)
               /\ Returned(q) = Alone(Get(finished[q]).call, source)

\* a sorted and paged filter call has returned while another filter call,
\* started before the return, is past its copy of the collection
C5_Witness ==
    \E q \in Queries, p \in Queries :
        /\ p # q
        /\ Has(finished[q])
        /\ Has(Get(finished[q]).array)
        /\ Has(Get(finished[q]).call.filters.sort)
        /\ Has(running[p])
        /\ Get(running[p]).call.op = "filter"
        /\ Get(running[p]).step > 0
        /\ Get(running[p]).filteredData < Get(Get(finished[q]).array)

(***************************************************************************)
(* Chained calls: a call is made on the loaded collection or on a context  *)
(* that an earlier filter call returned.                                   *)
(***************************************************************************)
InitChain ==
    \E src \in SeqsOf(ConcurrentRecords, 0, MaxLen) :
        /\ source = src
        /\ heap = <<src>>
        /\ running = [q \in Queries |-> None]
        /\ finished = [q \in Queries |-> None]
        /\ options = None
        /\ statistics = None
        /\ pendingMessage = Undefined
        /\ pendingConsumed = FALSE
        /\ storeCalls = <<>>
        /\ input = <<>>
        /\ route = "/"
        /\ file = None
        /\ loaded = None
        /\ errorLog = <<>>
        /\ plan = <<NoFilters>>
        /\ params = NoParams
        /\ exclusionParams = None
        /\ chain = <<>>
        /\ threw = FALSE
        /\ oneShot = NotRun
        /\ toolOut = NoToolOut
        /\ pc = "chained"

SpecChain == InitChain /\ [][NextConcurrent]_vars

\* the record passes the filtering directives of the specification
PassesFilters(record, filters) ==
    \E r \in {filter(<<record>>, [filters EXCEPT !.sort = None, !.limit = None,
                                                 !.offset = None])} :
        ~r.threw /\ r.data = <<record>>

\* C19: filter returns a new context and leaves the data of the receiving
\* context unchanged; every record of the result is a record of the
\* receiving context that passes the filters of the call, so that in a
\* chain ctx.filter(A).filter(B) the result holds records of ctx.filter(A)
\* that also pass B, and it is what B gives on the data of ctx.filter(A).
C19_ChainNarrows ==
    \A q \in Queries :
        /\ Has(running[q]) => heap[Get(running[q]).data] = Get(running[q]).was
        /\ (Has(finished[q]) /\ Get(finished[q]).call.op = "filter") =>
               \E r \in {Get(finished[q])} :
                   /\ heap[r.data] = r.was
                   /\ ~r.threw =>
                          /\ Has(r.array)
                          /\ Get(r.array) # r.data
                          /\ \A i \in 1..Len(heap[Get(r.array)]) :
                                 /\ \E j \in 1..Len(r.was) :
                                        r.was[j] = heap[Get(r.array)][i]
                                 /\ PassesFilters(heap[Get(r.array)][i],
                                                  r.call.filters)
                   /\ Returned(q) = Alone(r.call, r.was)

\* a filter call on the context returned by an earlier filter call has
\* returned fewer records than that context holds, which holds fewer than
\* the loaded collection
C19_Witness ==
    \E q \in Queries, p \in Queries :
        /\ p # q
        /\ Has(finished[p]) /\ Has(finished[q])
        /\ Get(finished[p]).call.op = "filter"
        /\ Get(finished[q]).call.op = "filter"
        /\ Get(finished[p]).data = SourceId
        /\ Get(finished[p]).array = Some(Get(finished[q]).data)
        /\ Has(Get(finished[q]).array)
        /\ Len(heap[Get(Get(finished[q]).array)]) > 0
        /\ Len(heap[Get(Get(finished[q]).array)]) < Len(heap[Get(finished[q]).data])
        /\ Len(heap[Get(finished[q]).data]) < Len(source)

(***************************************************************************)
(* Directives on the delimited multi-valued fields.                        *)
(***************************************************************************)
MultiValueKey == [genres |-> "Genres", studios |-> "Studios", producers |-> "Producers"]

MultiValueTexts ==
    {<<"A","c",","," ","C","o">>, <<"D","r">>, <<>>, <<"C","o",",","D","r","a">>}

MultiValueRecords(field) ==
    {[BaseAnime EXCEPT ![field] = v] : v \in MultiValueTexts}

RequestedValues ==
    {<<>>, <<<<"a","c">>>>, <<<<"A","C">>, <<"c","o">>>>, <<<<"D","R">>, <<"a","c">>>>,
     <<<<"c",","," ","c">>>>, <<<<"o",",","d">>>>}

MultiValueDirectives ==
    {ArrayFilter(v) : v \in RequestedValues}
    \cup {MultiSelectFilter(Some(v), m) :
             v \in RequestedValues, m \in {Some(TRUE), Some(FALSE)}}

InitMultiValue ==
    \E key \in DOMAIN MultiValueKey :
        \E src \in SeqsOf(MultiValueRecords(MultiValueKey[key]), 1, MaxLen) :
            \E d \in MultiValueDirectives :
                InitQuery(src, <<[NoFilters EXCEPT ![key] = Some(d)]>>)

SpecMultiValue == InitMultiValue /\ [][NextQuery]_vars

\* the two characters are the same letter up to case
SameIgnoringCase(c, d) ==
    \/ c = d
    \/ \E i \in 1..Len(UpperChars) :
           {c, d} = {UpperChars[i], LowerChars[i]}

\* v occurs in t at some position, case-insensitively
ContainedIgnoringCase(v, t) ==
    \E at \in 0..(Len(t) - Len(v)) :
        \A i \in 1..Len(v) : SameIgnoringCase(v[i], t[at + i])

\* a..b is a maximal comma-free run of the text (empty when b = a - 1)
IsRun(text, a, b) ==
    /\ a <= b + 1
    /\ a = 1 \/ text[a - 1] = ","
    /\ b = Len(text) \/ text[b + 1] = ","
    /\ \A k \in a..b : text[k] # ","

\* the comma-separated segments of the text with the blanks around them
\* removed
Segments(text) ==
    {SubSeq(text, x[1], x[2]) :
        x \in {y \in (1..(Len(text) + 1)) \X (0..Len(text)) :
            /\ y[1] <= y[2] + 1
            /\ y[1] <= y[2] => text[y[1]] # " " /\ text[y[2]] # " "
            /\ \E a \in 1..y[1], b \in y[2]..Len(text) :
                   /\ IsRun(text, a, b)
                   /\ \A k \in (a..(y[1] - 1)) \cup ((y[2] + 1)..b) :
                          text[k] = " "}}

InSomeSegment(v, text) == \E seg \in Segments(text) : ContainedIgnoringCase(v, seg)

\* the records the directive keeps according to the rule of the two modes
MultiValueExpected(data, field, values, all) ==
    SelectSeq(data, LAMBDA anime :
        IF all
        THEN \A i \in 1..Len(values) : InSomeSegment(values[i], anime[field])
        ELSE \E i \in 1..Len(values) : InSomeSegment(values[i], anime[field]))

\* C11: on Genres, Studios and Producers a directive {values, matchAny:
\* false} keeps exactly the records in which every requested value is
\* contained, ignoring case, in some trimmed comma-separated segment, and
\* a directive with matchAny: true or a plain list keeps exactly the
\* records in which at least one requested value is contained in a segment
C11_MultiValueModes ==
    Len(chain) = 1 =>
        \A key \in DOMAIN MultiValueKey :
            Has(plan[1][key]) =>
                LET d == Get(plan[1][key])
                IN  chain[1] =
                        MultiValueExpected(source, MultiValueKey[key],
                            Get(d.values),
                            ~d.isArray /\ d.matchAny = Some(FALSE))

\* an all-mode directive with two values kept one record and dropped another
C11_Witness ==
    /\ Len(chain) = 1
    /\ \E key \in DOMAIN MultiValueKey :
           /\ Has(plan[1][key])
           /\ Get(plan[1][key]).matchAny = Some(FALSE)
           /\ Len(Get(Get(plan[1][key]).values)) = 2
    /\ Len(chain[1]) > 0
    /\ Len(chain[1]) < Len(source)

(***************************************************************************)
(* Two single-field predicates on different fields, one after the other.   *)
(***************************************************************************)
CommuteRecords ==
    {[BaseAnime EXCEPT !.Title = <<"a","b">>, !.Score = Some(7),
                       !.Type = <<"T","V">>,
                       !.Genres = <<"A","c",","," ","C","o">>,
                       !.Aired = <<"2","0","0","1">>],
     [BaseAnime EXCEPT !.Title = <<"a","b","c">>, !.Score = None,
                       !.Type = <<"O","V","A">>, !.Genres = <<"D","r">>,
                       !.Aired = <<"1","9","9","9">>],
     [BaseAnime EXCEPT !.Title = <<"x","y">>, !.Score = Some(9),
                       !.Type = <<"T","V">>, !.Genres = <<"A","c">>,
                       !.Aired = <<>>],
     [BaseAnime EXCEPT !.Title = <<"a","b">>, !.Score = Some(9),
                       !.Type = <<"O","V","A">>,
                       !.Genres = <<"C","o",",","A","c">>,
                       !.Aired = <<"2","0","0","5">>]}

\* single-field predicates: the key and its directive
SinglePredicates ==
    {[key |-> "score", directive |-> RangeFilter(Some(8), None)],
     [key |-> "score", directive |-> NumericFilter("lte", Some(7), None)],
     [key |-> "type", directive |-> ArrayFilter(<<<<"t","v">>>>)],
     [key |-> "genres",
      directive |-> MultiSelectFilter(Some(<<<<"a","c">>, <<"c","o">>>>), Some(FALSE))],
     [key |-> "title", directive |-> TextFilter(Some(<<"a","b">>), FALSE, FALSE)],
     [key |-> "aired", directive |-> [start |-> Some(<<"2","0","0","0">>), end |-> None]]}

Only(p) == [NoFilters EXCEPT ![p.key] = Some(p.directive)]

InitCommute ==
    \E src \in SeqsOf(CommuteRecords, 1, MaxLen) :
        \E A \in SinglePredicates, B \in SinglePredicates :
            /\ A.key # B.key
            /\ InitQuery(src, <<Only(A), Only(B)>>)

SpecCommute == InitCommute /\ [][NextQuery]_vars

\* one specification holding the directives of both
Together(A, B) == [key \in DOMAIN A |-> IF Has(A[key]) THEN A[key] ELSE B[key]]

\* C12: for predicates A and B on different fields, without sort and
\* pagination, ctx.filter(A).filter(B), ctx.filter(B).filter(A) and
\* ctx.filter(A and B together) hold the same records
C12_Commutes ==
    Len(chain) = 2 =>
        /\ chain[2] = filter(filter(source, plan[2]).data, plan[1]).data
        /\ chain[2] = filter(source, Together(plan[1], plan[2])).data

\* both predicates removed a record and a record is left
C12_Witness ==
    /\ Len(chain) = 2
    /\ Len(chain[1]) < Len(source)
    /\ Len(chain[2]) < Len(chain[1])
    /\ Len(chain[2]) > 0

(***************************************************************************)
(* The option list of a delimited field, used as a directive on the field. *)
(***************************************************************************)
OptionTexts ==
    {<<"A","c",","," ","C","o">>, <<" ","D","r",",","a","c">>, <<>>, <<"C","o",",",",","D","r","a">>,
     Undefined}

OptionRecords(field) == {[BaseAnime EXCEPT ![field] = v] : v \in OptionTexts}

\* getUniqueValues(data, field)
GetUniqueValues ==
    /\ pc = "options"
    /\ options = None
    /\ \E key \in DOMAIN MultiValueKey :
           options' = Some([key |-> key,
                            values |-> getUniqueValues(source, MultiValueKey[key])])
    /\ UNCHANGED <<source, plan, params, exclusionParams, chain, threw, oneShot,
                   toolOut, pc, heap, running, finished, file, loaded, errorLog,
                   statistics, pendingVars>>

\* one of the values becomes the directive of the next filter call
UseOption ==
    /\ pc = "options"
    /\ Has(options)
    /\ \E i \in 1..Len(Get(options).values) :
           plan' = <<[NoFilters EXCEPT
                         ![Get(options).key] =
                             Some(ArrayFilter(<<Get(options).values[i]>>))]>>
    /\ pc' = "chain"
    /\ UNCHANGED <<source, params, exclusionParams, chain, threw, oneShot,
                   toolOut, heap, running, finished, options, file, loaded,
                   errorLog, statistics, pendingVars>>

NextOptions == GetUniqueValues \/ UseOption \/ Filter \/ FilterAnime

InitOptions ==
    \E key \in DOMAIN MultiValueKey :
        \E src \in SeqsOf(OptionRecords(MultiValueKey[key]), 0, MaxLen) :
            /\ source = src
            /\ plan = <<NoFilters>>
            /\ params = NoParams
            /\ chain = <<>>
            /\ threw = FALSE
            /\ oneShot = NotRun
            /\ toolOut = NoToolOut
            /\ pc = "options"
            /\ Idle

SpecOptions == InitOptions /\ [][NextOptions]_vars

\* the text has t as one of its comma-separated segments, blanks aside
HasTag(text, t) == text # Undefined /\ t \in Segments(text)

\* C13: a value t of getUniqueValues(D, 'Genres'), used as the genres
\* directive [t] on D, gives a non-empty result with every record of D
\* whose Genres field has t as one of its comma-separated segments
C13_RoundTrip ==
    /\ ~threw
    /\ (Len(chain) = 1 /\ Has(plan[1].genres)) =>
           /\ Len(chain[1]) > 0
           /\ \A i \in 1..Len(source) :
                  HasTag(source[i].Genres, Get(Get(plan[1].genres).values)[1]) =>
                      \E j \in 1..Len(chain[1]) : chain[1][j] = source[i]

\* the genres directive made of an option kept some records and dropped one
C13_Witness ==
    /\ Has(options)
    /\ Get(options).key = "genres"
    /\ Len(Get(options).values) > 1
    /\ Len(chain) = 1
    /\ Len(chain[1]) > 0
    /\ Len(chain[1]) < Len(source)

(***************************************************************************)
(* loadAnimeData: the values of the JSON file and their conversion.        *)
(* A JSON value is absent (undefined), null, a string, a number or a       *)
(* boolean.  A number is n / 10^d, an infinity, or NaN.                    *)
(***************************************************************************)
RawAbsent == [t |-> "undefined"]
RawNull == [t |-> "null"]
RawString(s) == [t |-> "string", s |-> s]
RawNumber(x) == [t |-> "number", x |-> x]
RawBoolean(b) == [t |-> "boolean", b |-> b]

Finite(n, d) == [kind |-> "finite", n |-> n, d |-> d]
PlusInfinity == [kind |-> "infinity", n |-> 1, d |-> 0]
MinusInfinity == [kind |-> "infinity", n |-> 0 - 1, d |-> 0]
NaN == [kind |-> "NaN", n |-> 0, d |-> 0]

\* a decimal exponent from which every non-zero double overflows
MaxExponent == 309

InfinityText == <<"I","n","f","i","n","i","t","y">>

AllDigits(s) == \A i \in 1..Len(s) : IsDigit(s[i])

\* the unsigned part of a StrDecimalLiteral: Infinity, digits, digits.digits,
\* digits e digits
UnsignedNumber(s) ==
    LET dots == {i \in 1..Len(s) : s[i] = "."}
        exps == {i \in 1..Len(s) : s[i] \in {"e", "E"}}
    IN  IF s = InfinityText THEN PlusInfinity
        ELSE IF s = <<>> THEN NaN
        ELSE IF AllDigits(s) THEN Finite(DigitsValue(s, 0), 0)
        ELSE IF Cardinality(dots) = 1 /\ exps = {}
        THEN LET i == CHOOSE k \in dots : TRUE
                 whole == SubSeq(s, 1, i - 1)
                 fraction == SubSeq(s, i + 1, Len(s))
             IN  IF AllDigits(whole) /\ AllDigits(fraction) /\ Len(s) > 1
                 THEN Finite(DigitsValue(whole \o fraction, 0), Len(fraction))
                 ELSE NaN
        ELSE IF Cardinality(exps) = 1 /\ dots = {}
        THEN LET i == CHOOSE k \in exps : TRUE
                 mantissa == SubSeq(s, 1, i - 1)
                 exponent == SubSeq(s, i + 1, Len(s))
             IN  IF mantissa # <<>> /\ exponent # <<>>
                    /\ AllDigits(mantissa) /\ AllDigits(exponent)
                 THEN IF DigitsValue(mantissa, 0) = 0 THEN Finite(0, 0)
                      ELSE IF DigitsValue(exponent, 0) >= MaxExponent
                      THEN PlusInfinity
                      ELSE Finite(DigitsValue(mantissa, 0),
                                  0 - DigitsValue(exponent, 0))
                 ELSE NaN
        ELSE NaN

\* Number(s) of a string: blanks around are dropped, '' is 0
StringToNumber(str) ==
    LET s == trim(str)
        body == IF s # <<>> /\ Head(s) \in {"-", "+"} THEN Tail(s) ELSE s
        u == UnsignedNumber(body)
    IN  IF s = <<>> THEN Finite(0, 0)
        ELSE IF s # <<>> /\ Head(s) = "-" /\ u.kind # "NaN"
        THEN [u EXCEPT !.n = 0 - u.n]
        ELSE u

\* s.replace(/,/g, '')
RECURSIVE WithoutCommas(_)
WithoutCommas(s) ==
    IF s = <<>> THEN <<>>
    ELSE IF Head(s) = "," THEN WithoutCommas(Tail(s))
    ELSE <<Head(s)>> \o WithoutCommas(Tail(s))

\* String(v) of a string or a boolean
JSString(v) ==
    IF v.t = "string" THEN v.s
    ELSE IF v.b THEN <<"t","r","u","e">> ELSE <<"f","a","l","s","e">>

\* toNumber of loadAnimeData: None is null
toNumber(v) ==
    IF v.t \in {"null", "undefined"} THEN None
    ELSE IF v.t = "number" THEN Some(v.x)
    ELSE LET s == trim(JSString(v))
         IN  IF s = <<>> THEN None
             ELSE LET n == StringToNumber(WithoutCommas(s))
                  IN  IF n.kind = "NaN" THEN None ELSE Some(n)

NotAvailable == <<"N","/","A">>

\* item.split(/(?=[A-Z])/): a new part starts before every capital letter
RECURSIVE SplitCapitals(_, _)
SplitCapitals(s, cur) ==
    IF s = <<>> THEN (IF cur = <<>> THEN <<>> ELSE <<cur>>)
    ELSE IF IsUpper(Head(s)) /\ cur # <<>>
    THEN <<cur>> \o SplitCapitals(Tail(s), <<Head(s)>>)
    ELSE SplitCapitals(Tail(s), Append(cur, Head(s)))

RECURSIVE Join(_, _)
Join(parts, sep) ==
    IF parts = <<>> THEN <<>>
    ELSE IF Len(parts) = 1 THEN parts[1]
    ELSE parts[1] \o sep \o Join(Tail(parts), sep)

\* the tag kept for one item when the second rule keeps the first half of
\* every even list of parts
CleanedItemAnyEvenParts(item) ==
    LET halfLength == Len(item) \div 2
        parts == SplitCapitals(item, <<>>)
        firstHalf == SubSeq(parts, 1, Len(parts) \div 2)
    IN  IF halfLength > 0
           /\ SubSeq(item, 1, halfLength) = SubSeq(item, halfLength + 1, Len(item))
        THEN SubSeq(item, 1, halfLength)
        ELSE IF Len(parts) % 2 = 0
        THEN Join(firstHalf, <<>>)
        ELSE item

\* the tag kept for one item
CleanedItem(item) ==
    LET halfLength == Len(item) \div 2
        parts == SplitCapitals(item, <<>>)
        firstHalf == SubSeq(parts, 1, Len(parts) \div 2)
        secondHalf == SubSeq(parts, Len(parts) \div 2 + 1, Len(parts))
    IN  IF halfLength > 0
           /\ SubSeq(item, 1, halfLength) = SubSeq(item, halfLength + 1, Len(item))
        THEN SubSeq(item, 1, halfLength)
        ELSE IF Len(parts) % 2 = 0 /\ Join(firstHalf, <<>>) = Join(secondHalf, <<>>)
        THEN Join(firstHalf, <<>>)
        ELSE item

\* the list of the cleaned items with the repeated ones left in
RECURSIVE CleanedItemsRepeated(_, _)
CleanedItemsRepeated(items, acc) ==
    IF items = <<>> THEN acc
    ELSE LET cleanedItem == CleanedItem(Head(items))
         IN  CleanedItemsRepeated(Tail(items),
                 IF cleanedItem # <<>> /\ cleanedItem # NotAvailable
                 THEN Append(acc, cleanedItem) ELSE acc)

\* the Set of the cleaned items in insertion order
RECURSIVE CleanedItems(_, _)
CleanedItems(items, acc) ==
    IF items = <<>> THEN acc
    ELSE LET cleanedItem == CleanedItem(Head(items))
         IN  CleanedItems(Tail(items),
                 IF cleanedItem # <<>> /\ cleanedItem # NotAvailable
                    /\ cleanedItem \notin Range(acc)
                 THEN Append(acc, cleanedItem) ELSE acc)

\* cleanCommaSeparatedField of a string
cleanString(fieldValue) ==
    IF fieldValue = <<>> \/ trim(fieldValue) = <<>> \/ fieldValue = NotAvailable
    THEN <<>>
    ELSE LET parts == split(fieldValue)
             items == SelectSeq([i \in 1..Len(parts) |-> trim(parts[i])],
                                LAMBDA item : item # <<>>)
         IN  Join(CleanedItems(items, <<>>), <<",", " ">>)

\* a value of the file is falsy
Falsy(v) ==
    \/ v.t \in {"null", "undefined"}
    \/ v.t = "string" /\ v.s = <<>>
    \/ v.t = "boolean" /\ ~v.b
    \/ v.t = "number" /\ (v.x.kind = "NaN" \/ (v.x.kind = "finite" /\ v.x.n = 0))

\* (item.X as string) ?? ''
OrEmpty(v) == IF v.t \in {"null", "undefined"} THEN RawString(<<>>) ELSE v

\* cleanCommaSeparatedField: fieldValue.trim of a value that is no string
\* raises a TypeError
cleanCommaSeparatedField(v) ==
    IF Falsy(v) THEN [threw |-> FALSE, value |-> RawString(<<>>)]
    ELSE IF v.t # "string" THEN [threw |-> TRUE, value |-> RawString(<<>>)]
    ELSE [threw |-> FALSE, value |-> RawString(cleanString(v.s))]

(***************************************************************************)
(* loadAnimeData as three steps inside one try block: readFile,            *)
(* JSON.parse, rawData.map.  An exception in a step goes to the catch      *)
(* block, which writes the error log and returns [].                       *)
(***************************************************************************)
TagFields == {"Genres", "Studios", "Producers"}

\* an object of the file; the string fields that are only copied are
\* represented by Title
RawItem ==
    [t |-> "object", Title |-> RawString(<<"a">>),
     Genres |-> RawAbsent, Studios |-> RawAbsent, Producers |-> RawAbsent,
     Score |-> RawAbsent, Popularity |-> RawAbsent, Rank |-> RawAbsent,
     Members |-> RawAbsent, Episodes |-> RawAbsent]

\* the record of one object; item.Title of null raises a TypeError
transformItem(item) ==
    IF item.t \in {"null", "undefined"} THEN [threw |-> TRUE, value |-> None]
    ELSE LET genres == cleanCommaSeparatedField(OrEmpty(item.Genres))
             studios == cleanCommaSeparatedField(OrEmpty(item.Studios))
             producers == cleanCommaSeparatedField(OrEmpty(item.Producers))
         IN  IF genres.threw \/ studios.threw \/ producers.threw
             THEN [threw |-> TRUE, value |-> None]
             ELSE [threw |-> FALSE,
                   value |-> Some([Title |-> OrEmpty(item.Title),
                                   Genres |-> genres.value,
                                   Studios |-> studios.value,
                                   Producers |-> producers.value,
                                   Score |-> toNumber(item.Score),
                                   Popularity |-> toNumber(item.Popularity),
                                   Rank |-> toNumber(item.Rank),
                                   Members |-> toNumber(item.Members),
                                   Episodes |-> toNumber(item.Episodes)])]

\* a map that drops the objects whose transformation raises
transformAllSkipping(rawData) ==
    IF rawData.t # "array" THEN [threw |-> FALSE, value |-> <<>>]
    ELSE LET good == SelectSeq(rawData.items,
                               LAMBDA item : ~transformItem(item).threw)
         IN  [threw |-> FALSE,
              value |-> [i \in 1..Len(good) |-> Get(transformItem(good[i]).value)]]

\* rawData.map(...): calling map on a value that is no array raises
transformAll(rawData) ==
    IF rawData.t # "array" THEN [threw |-> TRUE, value |-> <<>>]
    ELSE LET each == [i \in 1..Len(rawData.items) |-> transformItem(rawData.items[i])]
         IN  IF \E i \in 1..Len(each) : each[i].threw
             THEN [threw |-> TRUE, value |-> <<>>]
             ELSE [threw |-> FALSE,
                   value |-> [i \in 1..Len(each) |-> Get(each[i].value)]]

\* catch (error) { console.error(...); return []; }
Catch(what) ==
    /\ errorLog' = Append(errorLog, what)
    /\ loaded' = Some(<<>>)
    /\ pc' = "loaded"

\* await readFile(filePath, 'utf-8')
ReadFile ==
    /\ pc = "readFile"
    /\ IF Get(file).readable
       THEN pc' = "parse" /\ UNCHANGED <<loaded, errorLog>>
       ELSE Catch("readFile")
    /\ UNCHANGED <<source, plan, params, exclusionParams, chain, threw, oneShot,
                   toolOut, heap, running, finished, options, file,
                   statistics, pendingVars>>

\* JSON.parse(raw)
ParseJson ==
    /\ pc = "parse"
    /\ IF Get(file).wellFormed
       THEN pc' = "map" /\ UNCHANGED <<loaded, errorLog>>
       ELSE Catch("JSON.parse")
    /\ UNCHANGED <<source, plan, params, exclusionParams, chain, threw, oneShot,
                   toolOut, heap, running, finished, options, file,
                   statistics, pendingVars>>

\* return rawData.map(...)
TransformRecords ==
    /\ pc = "map"
    /\ \E r \in {transformAll(Get(file).value)} :
           IF r.threw THEN Catch("map")
           ELSE /\ loaded' = Some(r.value)
                /\ pc' = "loaded"
                /\ errorLog' = errorLog
    /\ UNCHANGED <<source, plan, params, exclusionParams, chain, threw, oneShot,
                   toolOut, heap, running, finished, options, file,
                   statistics, pendingVars>>

NextLoad == ReadFile \/ ParseJson \/ TransformRecords

NumericRaw ==
    {RawAbsent, RawNull, RawString(<<>>), RawString(<<" ">>),
     RawString(NotAvailable), RawString(<<"7">>), RawString(<<"1",",","2","3","4">>),
     RawString(<<" ","8",".","5"," ">>), RawString(<<"-","3">>),
     RawString(<<"1","2","a","b">>), RawString(InfinityText),
     RawString(<<"-">> \o InfinityText), RawString(<<"1","e","9","9","9">>),
     RawString(<<"2","e","3">>),
     RawNumber(Finite(7, 0)), RawNumber(Finite(0, 0)), RawNumber(PlusInfinity),
     RawBoolean(TRUE)}

TagRaw ==
    {RawNull, RawString(<<>>), RawString(NotAvailable),
     RawString(<<"A","c","A","c",",","C","o","C","o">>),
     RawString(<<"A","c",","," ","A","c">>),
     RawString(<<"A","c","A","c",",","A","c">>),
     RawString(<<"C","o","C","o","C","o","C","o">>),
     RawString(<<"A","c",",","N","/","A",",",",","D","r">>),
     RawString(<<"S","f","S","f","X">>),
     RawNumber(Finite(5, 0)), RawNumber(Finite(0, 0)), RawBoolean(TRUE)}

LoadItems ==
    {[RawItem EXCEPT ![f] = v] : f \in NumericFields, v \in NumericRaw}
    \cup {[RawItem EXCEPT ![f] = v] : f \in TagFields, v \in TagRaw}

ArrayOf(items) == [t |-> "array", items |-> items]

FileOf(readable, wellFormed, value) ==
    [readable |-> readable, wellFormed |-> wellFormed, value |-> value]

LoadFiles ==
    {FileOf(TRUE, TRUE, ArrayOf(<<item>>)) : item \in LoadItems}
    \cup {FileOf(TRUE, TRUE, ArrayOf(items)) :
             items \in SeqsOf({RawItem, RawNull,
                               [RawItem EXCEPT !.Genres = RawString(<<"D","r","D","r">>),
                                               !.Score = RawString(<<"9">>)]},
                              0, MaxLen)}
    \cup {FileOf(FALSE, TRUE, ArrayOf(<<>>)), FileOf(TRUE, FALSE, ArrayOf(<<>>)),
          FileOf(TRUE, TRUE, [t |-> "object"]), FileOf(TRUE, TRUE, RawNull)}

InitLoad ==
    \E f \in LoadFiles :
        /\ file = Some(f)
        /\ loaded = None
        /\ errorLog = <<>>
        /\ options = None
        /\ statistics = None
        /\ pendingMessage = Undefined
        /\ pendingConsumed = FALSE
        /\ storeCalls = <<>>
        /\ input = <<>>
        /\ route = "/"
        /\ source = <<>>
        /\ plan = <<NoFilters>>
        /\ params = NoParams
        /\ exclusionParams = None
        /\ chain = <<>>
        /\ threw = FALSE
        /\ oneShot = NotRun
        /\ toolOut = NoToolOut
        /\ heap = <<>>
        /\ running = <<>>
        /\ finished = <<>>
        /\ pc = "readFile"

SpecLoad == InitLoad /\ [][NextLoad]_vars

\* C14: after loadAnimeData every one of Score, Popularity, Rank, Members
\* and Episodes of every record is a finite number or null: a raw value
\* that does not parse to a finite number is stored as null
C14_FiniteOrNull ==
    pc = "loaded" =>
        \A i \in 1..Len(Get(loaded)) :
            \A f \in NumericFields :
                \/ Get(loaded)[i][f] = None
                \/ Get(Get(loaded)[i][f]).kind = "finite"

\* the comma-separated tags of a loaded field, blanks around them removed
TagsOf(text) == LET parts == split(text) IN [i \in 1..Len(parts) |-> trim(parts[i])]

\* the tag is some non-empty string written twice
IsDoubled(tag) ==
    /\ Len(tag) > 0
    /\ Len(tag) % 2 = 0
    /\ \A i \in 1..(Len(tag) \div 2) : tag[i] = tag[Len(tag) \div 2 + i]

\* C15: after loadAnimeData no two comma-separated tags of the Genres,
\* Studios or Producers field of a record are equal, and no tag is a
\* non-empty string written twice
C15_NoDuplicateNoArtifact ==
    pc = "loaded" =>
        \A i \in 1..Len(Get(loaded)) :
            \A f \in TagFields :
                LET tags == TagsOf(Get(loaded)[i][f].s)
                IN  /\ \A j \in 1..Len(tags), k \in 1..Len(tags) :
                           j # k => tags[j] # tags[k]
                    /\ \A j \in 1..Len(tags) : ~IsDoubled(tags[j])

\* the transformation of the object raises: it is null, or one of its tag
\* fields holds a non-zero number or true, which has no trim method
RaisesInTransform(item) ==
    \/ item.t = "null"
    \/ \E f \in TagFields :
           \/ item[f].t = "boolean" /\ item[f].b
           \/ item[f].t = "number" /\ item[f].x # Finite(0, 0)

\* C16: when the file cannot be read or parsed, or the transformation of a
\* record raises, loadAnimeData returns the empty collection and writes
\* the error log, and no exception leaves loadAnimeData
C16_FailureIsEmptyAndLogged ==
    /\ ~threw
    /\ pc = "loaded" =>
           LET f == Get(file)
               fails == \/ ~f.readable
                        \/ ~f.wellFormed
                        \/ f.value.t # "array"
                        \/ \E i \in 1..Len(f.value.items) :
                               RaisesInTransform(f.value.items[i])
           IN  /\ fails => Get(loaded) = <<>> /\ Len(errorLog) = 1
               /\ ~fails => Len(Get(loaded)) = Len(f.value.items) /\ errorLog = <<>>

\* a file whose second object is null was read: the load failed in the map
C16_Witness ==
    /\ pc = "loaded"
    /\ Get(file).readable
    /\ Get(file).wellFormed
    /\ Get(file).value.t = "array"
    /\ Len(Get(file).value.items) > 1
    /\ Get(file).value.items[1].t = "object"
    /\ Get(file).value.items[2].t = "null"
    /\ errorLog = <<"map">>
    /\ Get(loaded) = <<>>

(***************************************************************************)
(* One tool call on a collection whose Title or Description may hold a     *)
(* number instead of a string.                                             *)
(***************************************************************************)
FaultRecords ==
    {[BaseAnime EXCEPT !.Title = <<"a","b">>, !.Score = Some(7), !.Type = <<"T","V">>],
     [BaseAnime EXCEPT !.Title = <<"x","y">>, !.Description = NotAString,
                       !.Type = <<"T","V">>],
     [BaseAnime EXCEPT !.Title = NotAString, !.Score = Some(9)],
     [BaseAnime EXCEPT !.Title = <<"a","b","c">>, !.English = NotAString]}

FaultParams ==
    {[NoParams EXCEPT !.searchQuery = q, !.limit = l] :
        q \in {None, Some(<<"a","b">>), Some(<<"x","y">>)}, l \in {None, Some(1)}}

FaultExclusionParams ==
    {[NoExclusionParams EXCEPT !.searchQuery = q, !.excludeTypes = t] :
        q \in {None, Some(<<"a","b">>), Some(<<"5">>)},
        t \in {None, Some(<<<<"o","v","a">>>>)}}

InitFaults ==
    \E src \in SeqsOf(FaultRecords, 0, MaxLen) :
        \E p \in FaultParams, e \in FaultExclusionParams :
            /\ source = src
            /\ params = p
            /\ exclusionParams = Some(e)
            /\ plan = <<BuildFilters(p)>>
            /\ chain = <<>>
            /\ threw = FALSE
            /\ oneShot = NotRun
            /\ toolOut = NoToolOut
            /\ pc = "tools"
            /\ heap = <<>>
            /\ running = <<>>
            /\ finished = <<>>
            /\ options = None
            /\ statistics = None
            /\ pendingMessage = Undefined
            /\ pendingConsumed = FALSE
            /\ storeCalls = <<>>
            /\ input = <<>>
            /\ route = "/"
            /\ file = None
            /\ loaded = None
            /\ errorLog = <<>>

\* a behaviour is one call: a tool loads the collection itself and shares
\* nothing with another call
FirstCall == toolOut = NoToolOut

NextFaults ==
    \/ FirstCall /\ ToolSearchAnime
    \/ FirstCall /\ ToolFilterAnime
    \/ FirstCall /\ ToolFilterAnimeWithExclusions
    \/ FirstCall /\ ToolGetAnimeOptions
    \/ FirstCall /\ ToolGetAnimeStatistics
    \/ FirstCall /\ ToolFindExactAnime
    \/ FirstCall /\ ToolGetAnimeById

SpecFaults == InitFaults /\ [][NextFaults]_vars

ToolNames == DOMAIN NoToolOut

\* C17: a tool call that hits an exception returns a payload with success
\* = false, a message and the error detail, and the exception does not
\* leave the tool.  The title lookups read the Title of the first record,
\* and the exclusions tool with a searchQuery reads it too, so a first
\* record whose Title is a number raises inside them; the filterAnime tool
\* without criteria and limit maps every record, so a Description that is
\* a number raises inside it.
C17_FaultsBecomePayloads ==
    /\ ~threw
    /\ \A name \in ToolNames :
           (Has(toolOut[name]) /\ Get(toolOut[name]).error) =>
               /\ ~Get(toolOut[name]).success
               /\ Get(toolOut[name]).message # ""
    /\ (source # <<>> /\ source[1].Title = NotAString) =>
           /\ Has(toolOut.findExactAnime) => Get(toolOut.findExactAnime).error
           /\ Has(toolOut.getAnimeById) => Get(toolOut.getAnimeById).error
           /\ (/\ Has(toolOut.filterAnimeWithExclusions)
               /\ Has(Get(exclusionParams).searchQuery)) =>
                  Get(toolOut.filterAnimeWithExclusions).error
    /\ (/\ Has(toolOut.filterAnime)
        /\ params.searchQuery = None
        /\ params.limit = None
        /\ \E i \in 1..Len(source) : source[i].Description = NotAString) =>
           Get(toolOut.filterAnime).error

\* getAnimeById has met a Title that is a number and returned the payload
\* of its catch block
C17_Witness ==
    /\ source # <<>>
    /\ source[1].Title = NotAString
    /\ Has(toolOut.getAnimeById)
    /\ Get(toolOut.getAnimeById).error
    /\ ~Get(toolOut.getAnimeById).success

(***************************************************************************)
(* The include and exclude lists of filterAnimeWithExclusions.             *)
(***************************************************************************)
ExclusionRecords ==
    {[BaseAnime EXCEPT !.Title = <<"a">>, !.Genres = <<"A","c",","," ","C","o">>,
                       !.Type = <<"T","V">>, !.Studios = <<"M","a">>],
     [BaseAnime EXCEPT !.Title = <<"b">>, !.Genres = <<"D","r">>,
                       !.Type = <<"O","V","A">>, !.Studios = <<>>],
     [BaseAnime EXCEPT !.Title = <<"c">>, !.Genres = <<"C","o",",","D","r">>,
                       !.Type = <<"T","V">>, !.Studios = <<"B","o",","," ","M","a">>],
     [BaseAnime EXCEPT !.Title = <<"d">>, !.Genres = <<>>, !.Type = Undefined,
                       !.Studios = Undefined]}

ExclusionLists ==
    {[NoExclusionParams EXCEPT !.includeGenres = ig, !.includeAllGenres = all,
                               !.excludeGenres = eg, !.excludeTypes = et,
                               !.excludeStudios = es] :
        ig \in {None, Some(<<<<"a","c">>>>), Some(<<<<"A","C">>, <<"d","r">>>>)},
        all \in {None, Some(TRUE)},
        eg \in {None, Some(<<<<"c","o">>>>), Some(<<<<>>>>)},
        et \in {None, Some(<<<<"o","v">>, <<"x">>>>)},
        es \in {None, Some(<<<<"M","A">>>>)}}

InitExclusions ==
    \E src \in SeqsOf(ExclusionRecords, 1, MaxLen) :
        \E e \in ExclusionLists :
            /\ source = src
            /\ exclusionParams = Some(e)
            /\ plan = <<NoFilters>>
            /\ params = NoParams
            /\ chain = <<>>
            /\ threw = FALSE
            /\ oneShot = NotRun
            /\ toolOut = NoToolOut
            /\ pc = "exclusions"
            /\ heap = <<>>
            /\ running = <<>>
            /\ finished = <<>>
            /\ options = None
            /\ statistics = None
            /\ pendingMessage = Undefined
            /\ pendingConsumed = FALSE
            /\ storeCalls = <<>>
            /\ input = <<>>
            /\ route = "/"
            /\ file = None
            /\ loaded = None
            /\ errorLog = <<>>

NextExclusions == ToolFilterAnimeWithExclusions

SpecExclusions == InitExclusions /\ [][NextExclusions]_vars

\* the field of a record each exclude list is tested against
ExcludeField ==
    [excludeGenres |-> "Genres", excludeTypes |-> "Type",
     excludeStatuses |-> "Status", excludeStudios |-> "Studios",
     excludeDemographics |-> "Demographic", excludeSources |-> "Source",
     excludeRatings |-> "Rating"]

\* the value is contained, ignoring case, in the field; for Genres and
\* Studios in one of its comma-separated segments, an empty field having
\* no segment
MatchesValue(text, field, v) ==
    /\ text # Undefined
    /\ IF field \in {"Genres", "Studios"}
       THEN text # <<>> /\ InSomeSegment(v, text)
       ELSE ContainedIgnoringCase(v, text)

MatchesExclude(anime, p) ==
    \E key \in DOMAIN ExcludeField :
        /\ Has(p[key])
        /\ \E i \in 1..Len(Get(p[key])) :
               MatchesValue(anime[ExcludeField[key]], ExcludeField[key], Get(p[key])[i])

MatchesIncludeGenres(anime, p) ==
    \/ ~Has(p.includeGenres)
    \/ Get(p.includeGenres) = <<>>
    \/ IF p.includeAllGenres = Some(TRUE)
       THEN \A i \in 1..Len(Get(p.includeGenres)) :
                MatchesValue(anime.Genres, "Genres", Get(p.includeGenres)[i])
       ELSE \E i \in 1..Len(Get(p.includeGenres)) :
                MatchesValue(anime.Genres, "Genres", Get(p.includeGenres)[i])

\* C18: filterAnimeWithExclusions returns no record that matches a value of
\* an exclude list, whether or not it matches an include list, and with
\* includeGenres it returns the records that match at least one listed
\* genre, or every listed genre when includeAllGenres is true
C18_ExcludesAlwaysRemove ==
    Has(toolOut.filterAnimeWithExclusions) =>
        LET p == Get(exclusionParams)
            expected == SelectSeq(source, LAMBDA anime :
                            MatchesIncludeGenres(anime, p) /\ ~MatchesExclude(anime, p))
        IN  /\ ~Get(toolOut.filterAnimeWithExclusions).error
            /\ Get(toolOut.filterAnimeWithExclusions).results =
                   [i \in 1..Len(expected) |-> ResultItem(expected[i])]

\* a record that matches the include list was removed by an exclude list,
\* and another record was returned
C18_Witness ==
    /\ Has(toolOut.filterAnimeWithExclusions)
    /\ Len(Get(toolOut.filterAnimeWithExclusions).results) > 0
    /\ Has(Get(exclusionParams).includeGenres)
    /\ \E i \in 1..Len(source) :
           /\ MatchesIncludeGenres(source[i], Get(exclusionParams))
           /\ MatchesExclude(source[i], Get(exclusionParams))


(***************************************************************************)
(* Operator directives on the numeric fields.                              *)
(***************************************************************************)
OperatorValues == {None, Some(3), Some(5), Some(8), Some(9)}

OperatorRecords(field) ==
    {[BaseAnime EXCEPT ![field] = v] : v \in OperatorValues}

StandardOperators == {"eq", "gt", "gte", "lt", "lte", "between"}

OperatorDirectives ==
    {NumericFilter(o, Some(5), s) :
        o \in StandardOperators, s \in {None, Some(8), Some(3)}}

InitOperators ==
    \E field \in NumericFields :
        \E src \in SeqsOf(OperatorRecords(field), 0, MaxLen) :
            \E d \in OperatorDirectives :
                InitQuery(src, <<[NoFilters EXCEPT ![NumericKey[field]] = Some(d)]>>)

SpecOperators == InitOperators /\ [][NextQuery]_vars

\* the number v stands in the relation named by the operator to a, and for
\* between lies in the closed interval from a to b
Satisfies(operator, v, a, b) ==
    \/ operator = "eq" /\ v = a
    \/ operator = "gt" /\ a < v
    \/ operator = "gte" /\ a <= v
    \/ operator = "lt" /\ v < a
    \/ operator = "lte" /\ v <= a
    \/ operator = "between" /\ b # None /\ v \in a..Get(b)

\* the positions of source whose field is a number that satisfies the
\* directive
OperatorPositions(field, d) ==
    {i \in 1..Len(source) :
        /\ source[i][field] # None
        /\ Satisfies(d.operator, Get(source[i][field]), Get(d.value),
                     d.secondValue)}

\* the records of source at the positions of P, in source order
AtPositions(P) == SelectSeq([i \in 1..Len(source) |-> <<i, source[i]>>],
                            LAMBDA pair : pair[1] \in P)

\* C20: with one operator directive (eq, gt, gte, lt, lte, between) on a
\* numeric field, filter raises no error and returns exactly the records
\* of the source whose field holds a number that satisfies the operator
\* against value, in source order; between keeps value <= v <= secondValue
\* and, without secondValue, keeps no record.
C20_OperatorSemantics ==
    \A field \in NumericFields :
        (Has(plan[1][NumericKey[field]]) /\ Len(chain) >= 1) =>
            \E d \in {Get(plan[1][NumericKey[field]])} :
                /\ ~threw
                /\ Len(chain[1]) = Cardinality(OperatorPositions(field, d))
                /\ \A k \in 1..Len(chain[1]) :
                       chain[1][k] = AtPositions(OperatorPositions(field, d))[k][2]
                /\ (d.operator = "between" /\ d.secondValue = None) =>
                       chain[1] = <<>>

\* a between directive from 5 to 8 on Score has run over records with the
\* scores 3, 5, 8 in some order, and kept two of them
C20_Witness ==
    /\ Has(plan[1].score)
    /\ Get(plan[1].score).operator = "between"
    /\ Get(plan[1].score).secondValue = Some(8)
    /\ {source[i].Score : i \in 1..Len(source)} = {Some(3), Some(5), Some(8)}
    /\ Len(chain) = 1
    /\ Len(chain[1]) = 2


(***************************************************************************)
(* getFieldStatistics on IEEE 754 binary64 numbers.  A positive number is  *)
(* m * 2^e with m a sequence of Precision bits, the first one 1; zero has  *)
(* no bits.  Sums and quotients round to nearest, ties to even.            *)
(***************************************************************************)
Precision == 53

HexDigits == <<"0","1","2","3","4","5","6","7","8","9","a","b","c","d","e","f">>

HexValue(c) == (CHOOSE i \in 1..Len(HexDigits) : HexDigits[i] = c) - 1

RECURSIVE HexBits(_)
HexBits(h) ==
    IF h = <<>> THEN <<>>
    ELSE LET v == HexValue(Head(h))
         IN  <<v \div 8, (v \div 4) % 2, (v \div 2) % 2, v % 2>> \o HexBits(Tail(h))

\* the number written 0x1.<fraction>p<exponent>
Zeros(n) == [i \in 1..n |-> 0]

Double(fraction, exponent) ==
    [m |-> <<1>> \o HexBits(fraction) \o Zeros(Precision - 1 - 4 * Len(fraction)),
     e |-> exponent - (Precision - 1)]

ZeroDouble == [m |-> <<>>, e |-> 0]

RECURSIVE StripZeros(_)
StripZeros(b) == IF b # <<>> /\ Head(b) = 0 THEN StripZeros(Tail(b)) ELSE b

\* the sum of two bit sequences of one length: a carry enters position i
\* when a lower position has two ones and every position between has one
AddBits(a, b) ==
    LET n == Len(a)
        carry(i) == \E j \in (i + 1)..n :
                        /\ a[j] + b[j] = 2
                        /\ \A k \in (i + 1)..(j - 1) : a[k] + b[k] = 1
        bit(i) == (a[i] + b[i] + (IF carry(i) THEN 1 ELSE 0)) % 2
    IN  (IF carry(0) THEN <<1>> ELSE <<>>) \o [i \in 1..n |-> bit(i)]

\* long division of a bit sequence by the integer n, from the remainder rem
\* and the quotient bits q found so far
RECURSIVE DivStep(_, _, _, _)
DivStep(bits, n, rem, q) ==
    IF bits = <<>> THEN [q |-> q, r |-> rem]
    ELSE DivStep(Tail(bits), n, (2 * rem + Head(bits)) % n,
                 Append(q, (2 * rem + Head(bits)) \div n))

\* bits * 2^e (first bit 1), plus a rest below the last bit when sticky,
\* rounded to Precision bits: to nearest, ties to even
RoundBits(bits, e, sticky) ==
    IF Len(bits) <= Precision
    THEN [m |-> bits \o Zeros(Precision - Len(bits)),
          e |-> e - (Precision - Len(bits))]
    ELSE LET k == Len(bits) - Precision
             kept == SubSeq(bits, 1, Precision)
             more == sticky \/ \E i \in (Precision + 2)..Len(bits) : bits[i] = 1
             up == bits[Precision + 1] = 1 /\ (more \/ kept[Precision] = 1)
             rounded == IF up
                        THEN AddBits(kept, Zeros(Precision - 1) \o <<1>>)
                        ELSE kept
         IN  IF Len(rounded) > Precision
             THEN [m |-> SubSeq(rounded, 1, Precision), e |-> e + k + 1]
             ELSE [m |-> rounded, e |-> e + k]

\* x + y
Plus(x, y) ==
    IF x.m = <<>> THEN y
    ELSE IF y.m = <<>> THEN x
    ELSE LET e == IF x.e < y.e THEN x.e ELSE y.e
             a == x.m \o Zeros(x.e - e)
             b == y.m \o Zeros(y.e - e)
             n == IF Len(a) > Len(b) THEN Len(a) ELSE Len(b)
         IN  RoundBits(AddBits(Zeros(n - Len(a)) \o a, Zeros(n - Len(b)) \o b),
                       e, FALSE)

\* x / n for a count n below 2^5: eight more bits of the quotient are
\* computed than are kept
Over(x, n) ==
    IF x.m = <<>> THEN x
    ELSE LET d == DivStep(x.m \o Zeros(8), n, 0, <<>>)
         IN  RoundBits(StripZeros(d.q), x.e - 8, d.r # 0)

\* x < y
Less(x, y) ==
    IF y.m = <<>> THEN FALSE
    ELSE IF x.m = <<>> THEN TRUE
    ELSE \/ x.e < y.e
         \/ /\ x.e = y.e
            /\ \E i \in 1..Precision :
                   /\ x.m[i] < y.m[i]
                   /\ \A j \in 1..(i - 1) : x.m[j] = y.m[j]

\* validValues.reduce((sum, val) => sum + val, 0)
RECURSIVE Reduce(_, _)
Reduce(values, sum) ==
    IF values = <<>> THEN sum ELSE Reduce(Tail(values), Plus(sum, Head(values)))

\* getFieldStatistics(data, field) for fields that hold binary64 numbers
getFieldStatisticsBinary64(data, field) ==
    LET defined == SelectSeq(data, LAMBDA anime : anime[field] # None)
        validValues == [i \in 1..Len(defined) |-> Get(defined[i][field])]
    IN  IF Len(validValues) = 0 THEN None
        ELSE Some([min |-> CHOOSE v \in Range(validValues) :
                               \A w \in Range(validValues) : ~Less(w, v),
                   max |-> CHOOSE v \in Range(validValues) :
                               \A w \in Range(validValues) : ~Less(v, w),
                   avg |-> Over(Reduce(validValues, ZeroDouble), Len(validValues)),
                   count |-> Len(validValues)])

StatisticsFields == {"Score", "Members"}

\* null, 1.4, 1.35, 2 and 8.5
StatisticsValues ==
    {None,
     Some(Double(<<"6","6","6","6","6","6","6","6","6","6","6","6","6">>, 0)),
     Some(Double(<<"5","9","9","9","9","9","9","9","9","9","9","9","a">>, 0)),
     Some(Double(<<>>, 1)),
     Some(Double(<<"1">>, 3))}

StatisticsRecords(field) ==
    {[BaseAnime EXCEPT ![field] = v] : v \in StatisticsValues}

\* getFieldStatistics(data, field)
GetFieldStatistics ==
    /\ pc = "statistics"
    /\ statistics = None
    /\ \E field \in {f \in StatisticsFields :
                         \A i \in 1..Len(source) :
                             \A g \in StatisticsFields \ {f} : source[i][g] = None} :
           statistics' = Some([field |-> field,
                               value |-> getFieldStatisticsBinary64(source, field)])
    /\ UNCHANGED <<source, plan, params, exclusionParams, chain, threw, oneShot,
                   toolOut, pc, heap, running, finished, options, file, loaded,
                   errorLog, pendingVars>>

NextStatistics == GetFieldStatistics

InitStatistics ==
    \E field \in StatisticsFields :
        \E src \in SeqsOf(StatisticsRecords(field), 0, MaxLen) :
            /\ source = src
            /\ plan = <<NoFilters>>
            /\ params = NoParams
            /\ exclusionParams = None
            /\ chain = <<>>
            /\ threw = FALSE
            /\ oneShot = NotRun
            /\ toolOut = NoToolOut
            /\ heap = <<>>
            /\ running = <<>>
            /\ finished = <<>>
            /\ options = None
            /\ file = None
            /\ loaded = None
            /\ errorLog = <<>>
            /\ statistics = None
            /\ pendingMessage = Undefined
            /\ pendingConsumed = FALSE
            /\ storeCalls = <<>>
            /\ input = <<>>
            /\ route = "/"
            /\ pc = "statistics"

SpecStatistics == InitStatistics /\ [][NextStatistics]_vars

\* the numbers of the field in the records of source
DefinedValues(field) ==
    {Get(source[i][field]) : i \in {j \in 1..Len(source) : source[j][field] # None}}

\* x <= y
AtMost(x, y) == ~Less(y, x)

\* C23: getFieldStatistics returns null when no record has a number in the
\* field; otherwise count is the number of records that have one, min and
\* max are the least and the greatest of these numbers, avg lies between
\* min and max, and the result is the one of the collection without the
\* records whose value is unknown.
C23_Statistics ==
    Has(statistics) =>
        \E field \in {Get(statistics).field}, r \in {Get(statistics).value} :
            /\ (r = None) <=> (DefinedValues(field) = {})
            /\ r # None =>
                   /\ Get(r).count =
                          Cardinality({j \in 1..Len(source) : source[j][field] # None})
                   /\ Get(r).min \in DefinedValues(field)
                   /\ Get(r).max \in DefinedValues(field)
                   /\ \A v \in DefinedValues(field) :
                          AtMost(Get(r).min, v) /\ AtMost(v, Get(r).max)
                   /\ AtMost(Get(r).min, Get(r).avg)
                   /\ AtMost(Get(r).avg, Get(r).max)
            /\ r = getFieldStatisticsBinary64(
                       SelectSeq(source, LAMBDA record : record[field] # None), field)

(***************************************************************************)
(* The aired directive.                                                    *)
(***************************************************************************)
AiredTexts ==
    {<<>>, <<"1","9","9","9">>, <<"a","2","0","0","1">>, <<"2","0","0">>,
     <<"2","0","a","0","1">>, <<"1","9","9","9"," ","2","0","0","1">>,
     <<"1","2","0","0","1">>, <<"2","0","0","0","?">>}

AiredRecords == {[BaseAnime EXCEPT !.Aired = t] : t \in AiredTexts}

\* the bounds of a directive: the text of a year and the year it names
YearBounds ==
    {[text |-> <<"1","9","9","9">>, year |-> 1999],
     [text |-> <<"2","0","0","1">>, year |-> 2001]}

AiredDirectives ==
    {[start |-> a, end |-> b] :
        a \in {None} \cup {Some(y.text) : y \in YearBounds},
        b \in {None} \cup {Some(y.text) : y \in YearBounds}}

InitAired ==
    \E src \in SeqsOf(AiredRecords, 0, MaxLen) :
        \E d \in AiredDirectives :
            InitQuery(src, <<[NoFilters EXCEPT !.aired = Some(d)]>>)

SpecAired == InitAired /\ [][NextQuery]_vars

YearOf(bound) == (CHOOSE y \in YearBounds : y.text = bound).year

\* four digits stand at the positions i..i+3 of the text
FourDigitsAt(text, i) ==
    /\ i >= 1 /\ i + 3 <= Len(text)
    /\ \A k \in i..(i + 3) : text[k] \in {"0","1","2","3","4","5","6","7","8","9"}

Decimal(c) ==
    CASE c = "0" -> 0 [] c = "1" -> 1 [] c = "2" -> 2 [] c = "3" -> 3
      [] c = "4" -> 4 [] c = "5" -> 5 [] c = "6" -> 6 [] c = "7" -> 7
      [] c = "8" -> 8 [] c = "9" -> 9

\* the record has a first place with four digits, and the year written
\* there lies within the bounds that the directive gives
AiredExpected(record, d) ==
    \E i \in 1..Len(record.Aired) :
        /\ FourDigitsAt(record.Aired, i)
        /\ \A j \in 1..(i - 1) : ~FourDigitsAt(record.Aired, j)
        /\ \E year \in {1000 * Decimal(record.Aired[i])
                         + 100 * Decimal(record.Aired[i + 1])
                         + 10 * Decimal(record.Aired[i + 2])
                         + Decimal(record.Aired[i + 3])} :
               /\ d.start # None => YearOf(Get(d.start)) <= year
               /\ d.end # None => year <= YearOf(Get(d.end))

\* C21: with an aired directive, filter keeps exactly the records whose
\* Aired text contains four digits in a row and whose year, read at the
\* first such place, is at least start and at most end for each bound
\* given; a record whose Aired text has no four digits in a row is not
\* kept.
C21_AiredYear ==
    (Has(plan[1].aired) /\ Len(chain) >= 1) =>
        /\ ~threw
        /\ chain[1] = SelectSeq(source,
                          LAMBDA record : AiredExpected(record, Get(plan[1].aired)))
        /\ \A k \in 1..Len(chain[1]) :
               \E i \in 1..Len(chain[1][k].Aired) : FourDigitsAt(chain[1][k].Aired, i)

\* a directive from 1999 to 1999 has run over a record whose text holds
\* two years, the first within the bounds, and a record without a year,
\* and kept the first only
C21_Witness ==
    /\ plan[1].aired = Some([start |-> Some(<<"1","9","9","9">>),
                             end |-> Some(<<"1","9","9","9">>)])
    /\ Len(source) = 2
    /\ source[1].Aired = <<"1","9","9","9"," ","2","0","0","1">>
    /\ source[2].Aired = <<"2","0","a","0","1">>
    /\ Len(chain) = 1
    /\ chain[1] = <<source[1]>>


(***************************************************************************)
(* The search directive in exact mode.                                     *)
(***************************************************************************)
ExactSearchTitles == {<<"A","b">>, <<"b">>, <<"a"," ","b">>, <<"c">>}

ExactSearchRecords == {[BaseAnime EXCEPT !.Title = t] : t \in ExactSearchTitles}

ExactSearchDirectives ==
    {TextFilter(Some(q), TRUE, c) :
        q \in {<<"b">>, <<"a","b">>, <<"A","b">>, <<"a"," ","b">>},
        c \in BOOLEAN}

InitExactSearch ==
    \E src \in SeqsOf(ExactSearchRecords, 1, MaxLen) :
        \E d \in ExactSearchDirectives :
            InitQuery(src, <<[NoFilters EXCEPT !.search = Some(d)]>>)

SpecExactSearch == InitExactSearch /\ [][NextQuery]_vars

\* the query is a part of the text
OccursIn(query, text) ==
    \E i \in 0..(Len(text) - Len(query)) :
        \A k \in 1..Len(query) : text[i + k] = query[k]

\* the query occurs in one of the searched fields of the record, letters
\* compared as written when caseSensitive is set and without regard to
\* case otherwise
LiteralHit(record, d) ==
    \E f \in SearchFields :
        IF d.caseSensitive
        THEN OccursIn(Get(d.query), record[f])
        ELSE OccursIn(toLowerCase(Get(d.query)), toLowerCase(record[f]))

\* C22: with search.exact set, filter keeps exactly the records in which
\* the query occurs as a literal substring of one of the searched text
\* fields, compared without regard to case unless search.caseSensitive is
\* set, and then compared as written.
C22_ExactIsSubstring ==
    (Has(plan[1].search) /\ Get(plan[1].search).exact /\ Len(chain) >= 1) =>
        chain[1] = SelectSeq(source,
                       LAMBDA record : LiteralHit(record, Get(plan[1].search)))


(***************************************************************************)
(* Tool calls of one process.  Every execute starts with                   *)
(* const animeData = await loadAnimeData(); heap holds the arrays that     *)
(* loadAnimeData has returned, running the calls made and the array each   *)
(* of them queried.  The file can be replaced between two calls.           *)
(***************************************************************************)
MaxCalls == 2

\* loadAnimeData(): the array it returns and what it writes to the log
loadAnimeData(f) ==
    IF ~f.readable THEN [value |-> <<>>, logged |-> <<"readFile">>]
    ELSE IF ~f.wellFormed THEN [value |-> <<>>, logged |-> <<"JSON.parse">>]
    ELSE CHOOSE out \in
             {IF r.threw THEN [value |-> <<>>, logged |-> <<"map">>]
              ELSE [value |-> r.value, logged |-> <<>>]
              : r \in {transformAll(f.value)}} : TRUE

SessionFiles ==
    {FileOf(TRUE, TRUE, ArrayOf(<<RawItem>>)),
     FileOf(TRUE, TRUE,
            ArrayOf(<<RawItem, [RawItem EXCEPT !.Score = RawString(<<"9">>)]>>)),
     FileOf(TRUE, TRUE, ArrayOf(<<>>)),
     FileOf(FALSE, TRUE, ArrayOf(<<>>))}

\* the execute of one of the tools: it loads the collection and queries
\* the array that the load returned
Execute ==
    /\ pc = "session"
    /\ Len(running) < MaxCalls
    /\ \E tool \in ToolNames, r \in {loadAnimeData(Get(file))} :
           /\ heap' = Append(heap, r.value)
           /\ errorLog' = errorLog \o r.logged
           /\ running' = Append(running,
                                [tool |-> tool, animeData |-> Len(heap) + 1])
    /\ UNCHANGED <<source, plan, params, exclusionParams, chain, threw, oneShot,
                   toolOut, pc, finished, options, file, loaded, statistics, pendingVars>>

\* the file is replaced from outside the process
WriteFile ==
    /\ pc = "session"
    /\ \E f \in SessionFiles \ {Get(file)} : file' = Some(f)
    /\ UNCHANGED <<source, plan, params, exclusionParams, chain, threw, oneShot,
                   toolOut, pc, heap, running, finished, options, loaded,
                   errorLog, statistics, pendingVars>>

NextSession == Execute \/ WriteFile

InitSession ==
    \E f \in SessionFiles :
        /\ file = Some(f)
        /\ loaded = None
        /\ errorLog = <<>>
        /\ options = None
        /\ statistics = None
        /\ pendingMessage = Undefined
        /\ pendingConsumed = FALSE
        /\ storeCalls = <<>>
        /\ input = <<>>
        /\ route = "/"
        /\ source = <<>>
        /\ plan = <<NoFilters>>
        /\ params = NoParams
        /\ exclusionParams = None
        /\ chain = <<>>
        /\ threw = FALSE
        /\ oneShot = NotRun
        /\ toolOut = NoToolOut
        /\ heap = <<>>
        /\ running = <<>>
        /\ finished = <<>>
        /\ pc = "session"

SpecSession == InitSession /\ [][NextSession]_vars

\* C24: over the tool calls of one process the collection is loaded from
\* the file at most once, and all calls query the same array, the one
\* that this load produced.
C24_LoadedOnce ==
    /\ Len(heap) <= 1
    /\ \A i \in 1..Len(running), j \in 1..Len(running) :
           /\ running[i].animeData = running[j].animeData
           /\ heap[running[i].animeData] = heap[running[j].animeData]


(***************************************************************************)
(* The order of filtering, sorting and pagination.                         *)
(***************************************************************************)
\* the part of list that starts after offset records and holds limit
\* records, or all the remaining ones when limit is None
Window(list, offset, limit) ==
    [k \in 1..(IF limit = None
               THEN Max2(0, Len(list) - offset)
               ELSE Max2(0, Min2(Get(limit), Len(list) - offset)))
        |-> list[offset + k]]

\* the records that pass the filters, in the order the sort directives give
FilteredThenSorted(filters) ==
    IF Has(filters.sort) /\ Get(filters.sort) # <<>>
    THEN applySorting(filterStages(source, filters).data, Get(filters.sort))
    ELSE filterStages(source, filters).data

\* C25: for limit omitted or at least 1, the result of filter is the
\* window that starts at offset (0 when omitted) and has limit records (or
\* runs to the end) of the list obtained by applying all filters first
\* and the sort after them.
C25_FixedOrder ==
    (/\ Len(chain) >= 1
     /\ ~threw
     /\ plan[1].limit = None \/ Get(plan[1].limit) >= 1) =>
        chain[1] = Window(FilteredThenSorted(plan[1]),
                          IF Has(plan[1].offset) THEN Get(plan[1].offset) ELSE 0,
                          plan[1].limit)

\* a search, a sort and a page of one record after the first have run; the
\* search dropped a record and the sort changed which record is second
C25_Witness ==
    /\ Len(chain) >= 1
    /\ Has(plan[1].search)
    /\ Has(plan[1].sort)
    /\ plan[1].offset = Some(1)
    /\ plan[1].limit = Some(1)
    /\ Len(filterStages(source, plan[1]).data) < Len(source)
    /\ Len(chain[1]) = 1
    /\ chain[1][1] # filterStages(source, plan[1]).data[2]


(***************************************************************************)
(* Sorting with several directives.                                        *)
(***************************************************************************)
\* a stands before b under the directive d: by the number for two known
\* values, and a known value before an unknown one when ascending, behind
\* it when descending
Precedes(a, b, d) ==
    IF d.direction = "asc"
    THEN a[d.field] # None /\ (b[d.field] = None \/ Get(a[d.field]) < Get(b[d.field]))
    ELSE \/ a[d.field] = None /\ b[d.field] # None
         \/ a[d.field] # None /\ b[d.field] # None /\ Get(a[d.field]) > Get(b[d.field])

TieUnder(a, b, d) == ~Precedes(a, b, d) /\ ~Precedes(b, a, d)

\* a stands before b under the first directive that does not tie them
LexBefore(a, b, sortOptions) ==
    \E n \in 1..Len(sortOptions) :
        /\ Precedes(a, b, sortOptions[n])
        /\ \A m \in 1..(n - 1) : TieUnder(a, b, sortOptions[m])

\* C26: the result of a sort is the input rearranged so that of any two
\* records the one in front is in front under the first directive that
\* does not tie them (two unknown values tie), and two records that tie
\* under every directive stand in their input order.
C26_LexicographicStable ==
    (Len(chain) >= 1 /\ Has(plan[1].sort)) =>
        \E at \in Permutations(1..Len(source)) :
            /\ chain[1] = [k \in 1..Len(source) |-> source[at[k]]]
            /\ \A k \in 1..Len(source), l \in 1..Len(source) :
                   k < l =>
                       \/ LexBefore(source[at[k]], source[at[l]], Get(plan[1].sort))
                       \/ /\ ~LexBefore(source[at[l]], source[at[k]],
                                         Get(plan[1].sort))
                          /\ at[k] < at[l]

\* a sort by Score and then by Episodes has run over three records: the
\* first two tie on Score and the second directive exchanged them, the
\* third ties with the second under both directives and stays behind it
C26_Witness ==
    /\ Len(chain) >= 1
    /\ plan[1].sort = Some(<<[field |-> "Score", direction |-> "desc"],
                             [field |-> "Episodes", direction |-> "asc"]>>)
    /\ Len(source) = 3
    /\ source[1].Score = None /\ source[1].Episodes = None
    /\ source[2].Score = None /\ source[2].Episodes = Some(1)
    /\ source[3] = source[2]
    /\ chain[1] = <<source[2], source[3], source[1]>>


(***************************************************************************)
(* cleanCommaSeparatedField on fields written as segments joined by        *)
(* commas.                                                                 *)
(***************************************************************************)
FieldSegments ==
    {<<"A","c">>, <<"A","c","A","c">>, <<" ","N","/","A">>,
     <<"N","/","A","N","/","A">>, <<>>, <<" ">>, <<"A","c","C","o">>,
     <<" ","D","r"," ">>, <<"A","A">>, <<"a","A","a","A">>,
     <<"A","b","C","A","b","C">>}

\* cleanCommaSeparatedField(fieldValue)
CleanField ==
    /\ pc = "clean"
    /\ loaded' = Some(cleanCommaSeparatedField(RawString(Get(file).text)))
    /\ pc' = "cleaned"
    /\ UNCHANGED <<source, plan, params, exclusionParams, chain, threw, oneShot,
                   toolOut, heap, running, finished, options, file, errorLog,
                   statistics, pendingVars>>

NextClean == CleanField

InitClean ==
    \E segments \in SeqsOf(FieldSegments, 0, MaxLen) :
        /\ file = Some([segments |-> segments, text |-> Join(segments, <<",">>)])
        /\ loaded = None
        /\ errorLog = <<>>
        /\ options = None
        /\ statistics = None
        /\ pendingMessage = Undefined
        /\ pendingConsumed = FALSE
        /\ storeCalls = <<>>
        /\ input = <<>>
        /\ route = "/"
        /\ source = <<>>
        /\ plan = <<NoFilters>>
        /\ params = NoParams
        /\ exclusionParams = None
        /\ chain = <<>>
        /\ threw = FALSE
        /\ oneShot = NotRun
        /\ toolOut = NoToolOut
        /\ heap = <<>>
        /\ running = <<>>
        /\ finished = <<>>
        /\ pc = "clean"

SpecClean == InitClean /\ [][NextClean]_vars

\* the text without the blanks at its ends
Stripped(text) ==
    LET inked == {i \in 1..Len(text) : text[i] # " "}
    IN  IF inked = {} THEN <<>>
        ELSE SubSeq(text, CHOOSE i \in inked : \A j \in inked : i <= j,
                    CHOOSE i \in inked : \A j \in inked : i >= j)

\* X for a text of the form XX, the text itself otherwise
Halved(text) ==
    IF /\ Len(text) > 0
       /\ Len(text) % 2 = 0
       /\ \A k \in 1..(Len(text) \div 2) : text[k] = text[Len(text) \div 2 + k]
    THEN SubSeq(text, 1, Len(text) \div 2)
    ELSE text

\* the list without the entries that occur earlier in it
FirstOccurrences(list) ==
    LET first == SelectSeq([i \in 1..Len(list) |-> <<i, list[i]>>],
                           LAMBDA p : \A j \in 1..(p[1] - 1) : list[j] # p[2])
    IN  [k \in 1..Len(first) |-> first[k][2]]

StrippedSegments ==
    [i \in 1..Len(Get(file).segments) |-> Stripped(Get(file).segments[i])]

\* the tags when the placeholder is dropped before the segments are halved
TagsPlaceholderFirst ==
    LET kept == SelectSeq(StrippedSegments,
                          LAMBDA t : t # <<>> /\ t # <<"N","/","A">>)
    IN  FirstOccurrences([i \in 1..Len(kept) |-> Halved(kept[i])])

\* the tags when the placeholder is dropped after the segments are halved
TagsPlaceholderLast ==
    LET kept == SelectSeq(StrippedSegments, LAMBDA t : t # <<>>)
        halved == [i \in 1..Len(kept) |-> Halved(kept[i])]
    IN  FirstOccurrences(SelectSeq(halved, LAMBDA t : t # <<"N","/","A">>))

CleanedItemHalfOnly(item) ==
    IF Len(item) \div 2 > 0
       /\ SubSeq(item, 1, Len(item) \div 2)
              = SubSeq(item, Len(item) \div 2 + 1, Len(item))
    THEN SubSeq(item, 1, Len(item) \div 2)
    ELSE item

RECURSIVE CleanedItemsHalfOnly(_, _)
CleanedItemsHalfOnly(items, acc) ==
    IF items = <<>> THEN acc
    ELSE LET cleanedItem == CleanedItemHalfOnly(Head(items))
         IN  CleanedItemsHalfOnly(Tail(items),
                 IF cleanedItem # <<>> /\ cleanedItem # NotAvailable
                    /\ cleanedItem \notin Range(acc)
                 THEN Append(acc, cleanedItem) ELSE acc)

cleanStringHalfOnly(fieldValue) ==
    IF fieldValue = <<>> \/ trim(fieldValue) = <<>> \/ fieldValue = NotAvailable
    THEN <<>>
    ELSE LET parts == split(fieldValue)
             items == SelectSeq([i \in 1..Len(parts) |-> trim(parts[i])],
                                LAMBDA item : item # <<>>)
         IN  Join(CleanedItemsHalfOnly(items, <<>>), <<",", " ">>)

\* the list of capitalized words of the item has two equal halves
EqualWordHalves(item) ==
    LET parts == SplitCapitals(item, <<>>)
    IN  /\ Len(parts) % 2 = 0
        /\ Join(SubSeq(parts, 1, Len(parts) \div 2), <<>>)
               = Join(SubSeq(parts, Len(parts) \div 2 + 1, Len(parts)), <<>>)

\* C28: the output of cleanCommaSeparatedField is the output of the same
\* function with the exact-half rule only, and a segment whose list of
\* capitalized words has two equal halves is of the form XX, which the
\* exact-half rule handles.
C28_CapitalsRuleIdle ==
    pc = "cleaned" =>
        /\ Get(loaded).value = RawString(cleanStringHalfOnly(Get(file).text))
        /\ \A i \in 1..Len(StrippedSegments) :
               (StrippedSegments[i] # <<>> /\ EqualWordHalves(StrippedSegments[i])) =>
                   Halved(StrippedSegments[i]) # StrippedSegments[i]

\* the field AcCo,AcAc has been cleaned: both segments have an even list
\* of capitalized words, the second with equal halves
C28_Witness ==
    /\ pc = "cleaned"
    /\ Get(file).segments = <<<<"A","c","C","o">>, <<"A","c","A","c">>>>
    /\ EqualWordHalves(<<"A","c","A","c">>)
    /\ Get(loaded).value = RawString(<<"A","c","C","o",","," ","A","c">>)


(***************************************************************************)
(* Results without a sort directive.                                       *)
(***************************************************************************)
\* C29: without sort directives the result of filter is a subsequence of
\* the input: the records at some set of input positions, in input order,
\* so that every returned record is an input record, none occurs more
\* often than in the input, and the input order is kept; this holds with
\* a fuzzy search as well.
C29_Subsequence ==
    (Len(chain) >= 1 /\ ~threw /\ plan[1].sort = None) =>
        \E P \in SUBSET (1..Len(source)) :
            /\ Len(chain[1]) = Cardinality(P)
            /\ \A k \in 1..Len(chain[1]) : chain[1][k] = AtPositions(P)[k][2]

\* a fuzzy search without sort and without page has kept two different
\* records of three
C29_Witness ==
    /\ Len(chain) >= 1
    /\ Has(plan[1].search)
    /\ ~Get(plan[1].search).exact
    /\ plan[1].sort = None
    /\ plan[1].offset = None
    /\ plan[1].limit = None
    /\ Len(source) = 3
    /\ Len(chain[1]) = 2
    /\ chain[1][1] # chain[1][2]


(***************************************************************************)
(* The pending-message store and the landing page that fills it.           *)
(***************************************************************************)
\* the number of store calls of a session
MaxOps == 3

\* the state of usePendingMessageStore
PendingStore == [pendingMessage |-> pendingMessage, pendingConsumed |-> pendingConsumed]

\* set(() => partial): the fields of the partial state replace the store's,
\* the other fields are kept
set(state, partial) ==
    [k \in DOMAIN state |-> IF k \in DOMAIN partial THEN partial[k] ELSE state[k]]

\* a set that only stores the message
setPendingMessageKeepConsumed(state, msg) == set(state, [pendingMessage |-> msg])

setPendingMessage(state, msg) ==
    set(state, [pendingMessage |-> msg, pendingConsumed |-> FALSE])

consumePendingMessage(state) == set(state, [pendingConsumed |-> TRUE])

clearPendingMessage(state) ==
    set(state, [pendingMessage |-> Undefined, pendingConsumed |-> FALSE])

\* the store after a call, and the call in the session's record
Stored(state, call) ==
    /\ pendingMessage' = state.pendingMessage
    /\ pendingConsumed' = state.pendingConsumed
    /\ storeCalls' = Append(storeCalls, call)

SentWithAttachments == <<"S","e","n","t"," ","w","i","t","h"," ","a","t","t","a","c","h","m","e","n","t","s">>

\* message texts: none, the empty string, a text
MessageTexts == {Undefined, <<>>, <<"h","i">>}

\* message.files: none, no file, one file
MessageFiles == {Undefined, <<>>, <<"a.png">>}

PromptInputMessages == [text : MessageTexts, files : MessageFiles]

\* Boolean(message?.text)
hasText(message) == message.text # Undefined /\ message.text # <<>>

\* Boolean(message?.files?.length)
hasAttachments(message) == message.files # Undefined /\ Len(message.files) # 0

queryVars ==
    <<source, plan, params, exclusionParams, chain, threw, oneShot, toolOut, pc,
      heap, running, finished, options, file, loaded, errorLog, statistics>>

\* onChange of the prompt's text area
OnChange ==
    /\ pc = "pending"
    /\ route = "/"
    /\ \E value \in MessageTexts \ {Undefined} : input' = value
    /\ UNCHANGED <<pendingMessage, pendingConsumed, storeCalls, route>>
    /\ UNCHANGED queryVars

\* Page.handleSubmit(message)
HandleSubmit ==
    /\ pc = "pending"
    /\ route = "/"
    /\ Len(storeCalls) < MaxOps
    /\ \E message \in PromptInputMessages :
           IF ~(hasText(message) \/ hasAttachments(message))
           THEN UNCHANGED pendingVars
           ELSE \E msg \in {IF hasText(message) THEN message.text
                                                ELSE SentWithAttachments} :
                    /\ Stored(setPendingMessage(PendingStore, msg),
                              [name |-> "setPendingMessage", msg |-> msg])
                    /\ input' = <<>>
                    /\ route' = "/chat"
    /\ UNCHANGED queryVars

\* the landing page is opened again: its input starts empty
OpenPage ==
    /\ pc = "pending"
    /\ route = "/chat"
    /\ route' = "/"
    /\ input' = <<>>
    /\ UNCHANGED <<pendingMessage, pendingConsumed, storeCalls>>
    /\ UNCHANGED queryVars

\* a caller of the store's setPendingMessage(msg)
SetPendingMessage ==
    /\ pc = "pending"
    /\ Len(storeCalls) < MaxOps
    /\ \E msg \in MessageTexts :
           Stored(setPendingMessage(PendingStore, msg),
                  [name |-> "setPendingMessage", msg |-> msg])
    /\ UNCHANGED <<input, route>>
    /\ UNCHANGED queryVars

\* a caller of the store's consumePendingMessage()
ConsumePendingMessage ==
    /\ pc = "pending"
    /\ Len(storeCalls) < MaxOps
    /\ Stored(consumePendingMessage(PendingStore),
              [name |-> "consumePendingMessage", msg |-> Undefined])
    /\ UNCHANGED <<input, route>>
    /\ UNCHANGED queryVars

\* a caller of the store's clearPendingMessage()
ClearPendingMessage ==
    /\ pc = "pending"
    /\ Len(storeCalls) < MaxOps
    /\ Stored(clearPendingMessage(PendingStore),
              [name |-> "clearPendingMessage", msg |-> Undefined])
    /\ UNCHANGED <<input, route>>
    /\ UNCHANGED queryVars

NextPending ==
    \/ OnChange
    \/ HandleSubmit
    \/ OpenPage
    \/ SetPendingMessage
    \/ ConsumePendingMessage
    \/ ClearPendingMessage

InitPending ==
    /\ pendingMessage = Undefined
    /\ pendingConsumed = FALSE
    /\ storeCalls = <<>>
    /\ input = <<>>
    /\ route = "/"
    /\ source = <<>>
    /\ plan = <<NoFilters>>
    /\ params = NoParams
    /\ chain = <<>>
    /\ threw = FALSE
    /\ oneShot = NotRun
    /\ toolOut = NoToolOut
    /\ exclusionParams = None
    /\ heap = <<>>
    /\ running = <<>>
    /\ finished = <<>>
    /\ options = None
    /\ statistics = None
    /\ file = None
    /\ loaded = None
    /\ errorLog = <<>>
    /\ pc = "pending"

SpecPending == InitPending /\ [][NextPending]_vars

\* the message that the calls leave in the store: the one of the latest
\* setPendingMessage that no clearPendingMessage followed
MessageLeft(calls) ==
    LET writes == {i \in 1..Len(calls) : calls[i].name # "consumePendingMessage"}
    IN  IF writes = {} THEN Undefined
        ELSE LET i == CHOOSE j \in writes : \A k \in writes : k <= j
             IN  IF calls[i].name = "setPendingMessage" THEN calls[i].msg
                 ELSE Undefined

\* C30: after any sequence of store calls, the last call decides the store:
\* after setPendingMessage(m) the message is m and it is not consumed, after
\* consumePendingMessage it is consumed and the message is the one the
\* earlier calls left, after clearPendingMessage there is no message and
\* nothing is consumed, as before the first call.
C30_PendingStore ==
    IF storeCalls = <<>>
    THEN pendingMessage = Undefined /\ ~pendingConsumed
    ELSE LET last == storeCalls[Len(storeCalls)]
             before == SubSeq(storeCalls, 1, Len(storeCalls) - 1)
         IN  /\ last.name = "setPendingMessage" =>
                    pendingMessage = last.msg /\ ~pendingConsumed
             /\ last.name = "consumePendingMessage" =>
                    pendingConsumed /\ pendingMessage = MessageLeft(before)
             /\ last.name = "clearPendingMessage" =>
                    pendingMessage = Undefined /\ ~pendingConsumed

\* a message was set and consumed, and a second message set after it is in
\* the store and not consumed
C30_Witness ==
    /\ Len(storeCalls) = 3
    /\ storeCalls[1].name = "setPendingMessage"
    /\ storeCalls[1].msg = <<"h","i">>
    /\ storeCalls[2].name = "consumePendingMessage"
    /\ storeCalls[3].name = "setPendingMessage"
    /\ storeCalls[3].msg = SentWithAttachments
    /\ pendingMessage = SentWithAttachments
    /\ ~pendingConsumed

====
